---- MODULE Spec2Model ----
(***************************************************************************)
(* Symptom-to-disease prediction subsystem of the Personalized Medical     *)
(* Assistant: the deterministic overlap engine                             *)
(* (ml_prediction/dataset_overlap_engine.py) and the random-forest engine  *)
(* (ml_prediction/rf_prediction_engine.py).                                *)
(*                                                                         *)
(* A Python str is a sequence of one-character strings; a dataset cell is  *)
(* a record [nan, s]: the float NaN pandas gives a missing cell, or a str. *)
(* A Jaccard score is the pair <<|intersection|, |union|>>; Python divides *)
(* the two as floats, and for the set sizes of this model two quotients    *)
(* are equal as floats exactly when the fractions are equal, so scores are *)
(* compared as fractions.  A confidence is kept in tenths of a percent.    *)
(***************************************************************************)
EXTENDS Integers, Sequences, FiniteSets, TLC

\* ------------------------------------------------------------------------
\* Python str primitives
\* ------------------------------------------------------------------------
UPPER == <<"A","B","C","D","E","F","G","H","I","J","K","L","M",
           "N","O","P","Q","R","S","T","U","V","W","X","Y","Z">>
LOWER == <<"a","b","c","d","e","f","g","h","i","j","k","l","m",
           "n","o","p","q","r","s","t","u","v","w","x","y","z">>

\* The characters of the model in ascending code point order (str comparison).
CODEPOINTS == <<"\t", " ", ",", "-", ".">> \o UPPER \o <<"_">> \o LOWER

ORD == [c \in {CODEPOINTS[i] : i \in 1..Len(CODEPOINTS)} |->
           CHOOSE i \in 1..Len(CODEPOINTS) : CODEPOINTS[i] = c]

\* ord(c), up to the gaps between the characters of the model
ord(c) == ORD[c]

\* str.isspace for one character
py_isspace(c) == c \in {" ", "\t"}

LOWER_OF == [c \in {CODEPOINTS[i] : i \in 1..Len(CODEPOINTS)} |->
                IF \E i \in 1..Len(UPPER) : UPPER[i] = c
                THEN LOWER[CHOOSE i \in 1..Len(UPPER) : UPPER[i] = c]
                ELSE c]

py_lower_char(c) == LOWER_OF[c]

\* str.lower()
py_lower(s) == [i \in 1..Len(s) |-> py_lower_char(s[i])]

RECURSIVE py_lstrip(_)
py_lstrip(s) ==
    IF s # <<>> /\ py_isspace(Head(s)) THEN py_lstrip(Tail(s)) ELSE s

RECURSIVE py_rstrip(_)
py_rstrip(s) ==
    IF s # <<>> /\ py_isspace(s[Len(s)])
    THEN py_rstrip(SubSeq(s, 1, Len(s) - 1)) ELSE s

\* str.strip()
py_strip(s) == py_rstrip(py_lstrip(s))

\* str.replace(a, b) for one-character a and b
py_replace(s, a, b) == [i \in 1..Len(s) |-> IF s[i] = a THEN b ELSE s[i]]

\* c in s
py_in(c, s) == \E i \in 1..Len(s) : s[i] = c

\* str.split(sep) for a one-character sep: the pieces between the separators,
\* the empty ones included.
RECURSIVE py_split(_, _)
py_split(s, sep) ==
    IF ~py_in(sep, s) THEN <<s>>
    ELSE LET k == CHOOSE i \in 1..Len(s) :
                     s[i] = sep /\ \A j \in 1..(i - 1) : s[j] # sep
         IN <<SubSeq(s, 1, k - 1)>> \o py_split(SubSeq(s, k + 1, Len(s)), sep)

is_letter(c) ==
    \E k \in 1..Len(LOWER) : LOWER[k] = c \/ UPPER[k] = c

\* str.title(): a letter that follows a non-letter is upper-cased, every
\* other letter lower-cased.
py_title(s) ==
    [i \in 1..Len(s) |->
        IF i = 1 \/ ~is_letter(s[i - 1])
        THEN IF \E k \in 1..Len(LOWER) : LOWER[k] = s[i]
             THEN UPPER[CHOOSE k \in 1..Len(LOWER) : LOWER[k] = s[i]]
             ELSE s[i]
        ELSE py_lower_char(s[i])]

\* a < b on str: lexicographic by code point
RECURSIVE py_str_lt(_, _)
py_str_lt(a, b) ==
    IF b = <<>> THEN FALSE
    ELSE IF a = <<>> THEN TRUE
    ELSE IF Head(a) # Head(b) THEN ord(Head(a)) < ord(Head(b))
    ELSE py_str_lt(Tail(a), Tail(b))

\* sorted(S) for a set of str
RECURSIVE py_sorted(_)
py_sorted(S) ==
    IF S = {} THEN <<>>
    ELSE LET m == CHOOSE x \in S : \A y \in S \ {x} : py_str_lt(x, y)
         IN <<m>> \o py_sorted(S \ {m})

\* the regular expression [_\s]+ : one character of a run
is_sep(c) == c = "_" \/ py_isspace(c)

RECURSIVE drop_seps(_)
drop_seps(s) == IF s # <<>> /\ is_sep(Head(s)) THEN drop_seps(Tail(s)) ELSE s

\* _SPACE_RE.sub(' ', v): every maximal run of underscores and whitespace
\* becomes one space.
RECURSIVE space_re_sub(_)
space_re_sub(s) ==
    IF s = <<>> THEN <<>>
    ELSE IF is_sep(Head(s)) THEN <<" ">> \o space_re_sub(drop_seps(Tail(s)))
    ELSE <<Head(s)>> \o space_re_sub(Tail(s))

\* round(n/d * 100, 1), in tenths of a percent (round half to even; with
\* d < 16 no quotient falls on a half).
py_round1(n, d) ==
    LET q == (1000 * n) \div d
        r == (1000 * n) % d
    IN IF 2 * r < d THEN q
       ELSE IF 2 * r > d THEN q + 1
       ELSE IF q % 2 = 0 THEN q ELSE q + 1

\* ------------------------------------------------------------------------
\* Dataset cells
\* ------------------------------------------------------------------------
NaN == [nan |-> TRUE, s |-> <<>>]
Str(x) == [nan |-> FALSE, s |-> x]

\* str(cell): the float NaN prints as 'nan'
py_str(cell) == IF cell.nan THEN <<"n","a","n">> ELSE cell.s

\* predict_proba gives probabilities in units of 1/ProbaUnits
ProbaUnits == 2

\* the normalization cache before any call: {}
EmptyCache == [k \in {} |-> <<>>]

\* let v = e in F(v): the value of e is computed once and named
Bind(e, F(_)) == F(e)

\* ------------------------------------------------------------------------
\* DatasetOverlapPredictionEngine
\* ------------------------------------------------------------------------
\* _norm storing in the cache the value it has before the separators are
\* rewritten
OV_norm_cache_early(cache, s) ==
    IF s = <<>> THEN [v |-> <<>>, cache |-> cache]
    ELSE IF s \in DOMAIN cache THEN [v |-> cache[s], cache |-> cache]
    ELSE Bind(py_lower(py_strip(s)), LAMBDA v1 :
         Bind(py_strip(space_re_sub(v1)), LAMBDA v2 :
         Bind(py_replace(v2, " ", "_"), LAMBDA v3 :
              [v |-> v3, cache |-> cache @@ (s :> v1)])))

\* _norm: returns the token and the cache after the call.
OV_norm(cache, s) ==
    IF s = <<>> THEN [v |-> <<>>, cache |-> cache]
    ELSE IF s \in DOMAIN cache THEN [v |-> cache[s], cache |-> cache]
    ELSE Bind(py_lower(py_strip(s)), LAMBDA v1 :
         Bind(py_strip(space_re_sub(v1)), LAMBDA v2 :
         Bind(py_replace(v2, " ", "_"), LAMBDA v3 :
              [v |-> v3, cache |-> cache @@ (s :> v3)])))

\* [self._norm(p) for p in parts], the cache threaded through the calls
RECURSIVE OV_norm_each(_, _)
OV_norm_each(cache, parts) ==
    IF parts = <<>> THEN [vs |-> <<>>, cache |-> cache]
    ELSE Bind(OV_norm(cache, Head(parts)), LAMBDA h :
         Bind(OV_norm_each(h.cache, Tail(parts)), LAMBDA t :
              [vs |-> <<h.v>> \o t.vs, cache |-> t.cache]))

\* _split_cell(cell) for a str cell
OV_split_cell(cache, cell) ==
    IF cell = <<>> THEN [parts |-> <<>>, cache |-> cache]
    ELSE Bind(OV_norm_each(cache, IF py_in(",", cell) THEN py_split(cell, ",")
                                  ELSE <<cell>>),
              LAMBDA r : [parts |-> SelectSeq(r.vs, LAMBDA p : p # <<>>),
                          cache |-> r.cache])

\* the inner loop of _prepare over the symptom columns of one row
RECURSIVE OV_row_symptoms(_, _)
OV_row_symptoms(cache, cells) ==
    IF cells = <<>> THEN [symptoms |-> {}, cache |-> cache]
    ELSE Bind(OV_split_cell(cache, py_str(Head(cells))), LAMBDA h :
         Bind(OV_row_symptoms(h.cache, Tail(cells)), LAMBDA t :
              [symptoms |-> {h.parts[i] : i \in 1..Len(h.parts)} \cup t.symptoms,
               cache |-> t.cache]))

\* the outer loop of _prepare: rows idx.. of df appended to _compiled_rows
RECURSIVE OV_compile(_, _, _)
OV_compile(cache, df, idx) ==
    IF idx > Len(df) THEN [rows |-> <<>>, cache |-> cache]
    ELSE Bind(OV_row_symptoms(cache, df[idx].cells), LAMBDA h :
         Bind(OV_compile(h.cache, df, idx + 1), LAMBDA t :
              [rows |-> <<[disease |-> df[idx].disease,
                           symptoms |-> h.symptoms,
                           medicine |-> py_strip(py_str(df[idx].medicine)),
                           diet |-> py_strip(py_str(df[idx].diet)),
                           row_index |-> idx - 1]>> \o t.rows,
               cache |-> t.cache]))

\* sorted(all_symptoms) over the compiled rows
OV_available_symptoms(rows) ==
    py_sorted(UNION {rows[i].symptoms : i \in 1..Len(rows)})

\* __init__ and _prepare: the engine object
OV_prepare(df, min_threshold) ==
    Bind(OV_compile(EmptyCache, df, 1), LAMBDA c :
         [min_threshold |-> min_threshold,
          _compiled_rows |-> c.rows,
          _normalize_cache |-> c.cache,
          available_symptoms |-> OV_available_symptoms(c.rows)])

\* get_available_symptoms
OV_get_available_symptoms(eng) ==
    [i \in 1..Len(eng.available_symptoms) |->
        py_title(py_replace(eng.available_symptoms[i], "_", " "))]

\* the literal texts of the overlap engine's results
OV_MSG_PROVIDE == <<"P","r","o","v","i","d","e"," ","a","t"," ","l","e","a","s","t",
                    " ","o","n","e"," ","s","y","m","p","t","o","m">>
\* the em dash of the source, written as a hyphen
OV_MSG_DASH == <<"-">>
OV_MSG_UNRECOGNIZED == <<"S","y","m","p","t","o","m","s"," ","n","o","t"," ",
                         "r","e","c","o","g","n","i","z","e","d"," ","i","n"," ",
                         "d","a","t","a","s","e","t">>
OV_MSG_INSUFFICIENT == <<"I","n","s","u","f","f","i","c","i","e","n","t"," ",
                         "d","a","t","a","s","e","t"," ","m","a","t","c","h",".",
                         " ","R","e","f","i","n","e"," ","s","y","m","p","t","o",
                         "m","s",".">>
OV_MSG_GENERAL_DIET == <<"G","e","n","e","r","a","l"," ","b","a","l","a","n","c",
                         "e","d"," ","d","i","e","t",","," ","h","y","d","r","a",
                         "t","i","o","n",","," ","r","e","s","t",".">>
OV_MSG_CONSULT == <<"C","o","n","s","u","l","t"," ","a"," ","h","e","a","l","t",
                    "h","c","a","r","e"," ","p","r","o","v","i","d","e","r">>
OV_MSG_BALANCED == <<"M","a","i","n","t","a","i","n"," ","b","a","l","a","n","c",
                     "e","d"," ","d","i","e","t">>

\* 1e-9, the tie epsilon, as 1 / EPS_DEN
EPS_DEN == 1000000000

\* a > b, a < b on scores <<n, d>>
score_gt(a, b) == a[1] * b[2] > b[1] * a[2]
score_lt(a, b) == a[1] * b[2] < b[1] * a[2]

\* abs(a - b) < 1e-9 on scores <<n, d>>
score_near(a, b) ==
    LET x == a[1] * b[2] - b[1] * a[2]
        ax == IF x < 0 THEN 0 - x ELSE x
    IN ax <= (a[2] * b[2] - 1) \div EPS_DEN

\* {self._norm(s) for s in symptoms if s}
RECURSIVE OV_input_norm(_, _)
OV_input_norm(cache, symptoms) ==
    IF symptoms = <<>> THEN [set |-> {}, cache |-> cache]
    ELSE IF Head(symptoms) = <<>> THEN OV_input_norm(cache, Tail(symptoms))
    ELSE Bind(OV_norm(cache, Head(symptoms)), LAMBDA h :
         Bind(OV_input_norm(h.cache, Tail(symptoms)), LAMBDA t :
              [set |-> {h.v} \cup t.set, cache |-> t.cache]))

\* best is None
OV_NoBest == [has |-> FALSE, pos |-> 0, intersection |-> {}, score |-> <<0, 1>>]

\* the body of the scoring loop without the tie-break branch
OV_score_update_strict(acc, k, inter, score) ==
    IF score_gt(score, acc.best_score)
    THEN [best |-> [has |-> TRUE, pos |-> k, intersection |-> inter,
                    score |-> score],
          best_score |-> score, scored |-> acc.scored + 1]
    ELSE [acc EXCEPT !.scored = @ + 1]

\* the body of the scoring loop once inter is known to be non-empty
OV_score_update(acc, k, inter, score) ==
    IF score_gt(score, acc.best_score)
    THEN [best |-> [has |-> TRUE, pos |-> k, intersection |-> inter,
                    score |-> score],
          best_score |-> score, scored |-> acc.scored + 1]
    ELSE IF score_near(score, acc.best_score) /\ acc.best.has
    THEN IF Cardinality(inter) > Cardinality(acc.best.intersection)
         THEN [best |-> [has |-> TRUE, pos |-> k, intersection |-> inter,
                         score |-> score],
               best_score |-> acc.best_score, scored |-> acc.scored + 1]
         ELSE [acc EXCEPT !.scored = @ + 1]
    ELSE [acc EXCEPT !.scored = @ + 1]

\* the score with both sets counted in full above the union
OV_jaccard_total(input_norm, symptoms) ==
    <<Cardinality(input_norm) + Cardinality(symptoms),
      Cardinality(input_norm \cup symptoms)>>

\* score = len(inter) / len(union), as <<numerator, denominator>>
OV_jaccard(input_norm, symptoms) ==
    <<Cardinality(input_norm \cap symptoms),
      Cardinality(input_norm \cup symptoms)>>

\* the scoring loop with the union taken as len(input) + len(row)
OV_score_step_sum(acc, r, k, input_norm) ==
    IF input_norm \cap r.symptoms = {} THEN acc
    ELSE OV_score_update(acc, k, input_norm \cap r.symptoms,
                         <<Cardinality(input_norm \cap r.symptoms),
                           Cardinality(input_norm) + Cardinality(r.symptoms)>>)

\* One pass of the scoring loop: row r, at position k of _compiled_rows,
\* against the state acc = [best, best_score, scored].
OV_score_step(acc, r, k, input_norm) ==
    IF input_norm \cap r.symptoms = {} THEN acc
    ELSE OV_score_update(acc, k, input_norm \cap r.symptoms,
                         OV_jaccard(input_norm, r.symptoms))

\* the scoring loop from row k on
RECURSIVE OV_score_rows(_, _, _, _)
OV_score_rows(acc, rows, k, input_norm) ==
    IF k > Len(rows) THEN acc
    ELSE OV_score_rows(OV_score_step(acc, rows[k], k, input_norm),
                       rows, k + 1, input_norm)

\* a result without the 'debug' key
OV_NoDebug == [keys |-> {}]

\* x or default, on str
py_or(x, default) == IF x # <<>> THEN x ELSE default

\* the 'low_match' return of predict
OV_low_match(eng, best_score) ==
    [predicted_disease |-> "Unknown",
     confidence |-> py_round1(best_score[1], best_score[2]),
     medicine_recommendation |-> OV_MSG_INSUFFICIENT,
     diet_recommendation |-> OV_MSG_GENERAL_DIET,
     status |-> "low_match",
     debug |-> [keys |-> {"score", "threshold"},
                score |-> best_score,
                threshold |-> eng.min_threshold]]

\* the 'success' return of predict
OV_success(eng, input_norm, best, best_score) ==
    [predicted_disease |-> eng._compiled_rows[best.pos].disease,
     confidence |-> py_round1(best_score[1], best_score[2]),
     medicine_recommendation |->
         py_or(eng._compiled_rows[best.pos].medicine, OV_MSG_CONSULT),
     diet_recommendation |->
         py_or(eng._compiled_rows[best.pos].diet, OV_MSG_BALANCED),
     status |-> "success",
     debug |-> [keys |-> {"score", "matched_symptoms", "input_symptoms",
                          "row_index"},
                score |-> best_score,
                matched_symptoms |-> py_sorted(best.intersection),
                input_symptoms |-> py_sorted(input_norm),
                row_index |-> eng._compiled_rows[best.pos].row_index]]

\* the return statements with the test reduced to `if not best`
OV_answer_any_score(eng, input_norm, best, best_score) ==
    IF ~best.has
    THEN OV_low_match(eng, best_score)
    ELSE OV_success(eng, input_norm, best, best_score)

\* the return statements of predict after the scoring loop
OV_answer(eng, input_norm, best, best_score) ==
    IF ~best.has \/ score_lt(best_score, eng.min_threshold)
    THEN OV_low_match(eng, best_score)
    ELSE OV_success(eng, input_norm, best, best_score)

\* predict(symptoms) from the normalization of the input on
OV_predict_scored(eng, symptoms) ==
    Bind(OV_input_norm(eng._normalize_cache, symptoms), LAMBDA inp :
      IF inp.set = {}
      THEN [result |-> [predicted_disease |-> "Unknown", confidence |-> 0,
                        medicine_recommendation |-> OV_MSG_UNRECOGNIZED,
                        diet_recommendation |-> OV_MSG_DASH,
                        status |-> "unrecognized", debug |-> OV_NoDebug],
            cache |-> inp.cache, scored |-> 0]
      ELSE
      Bind(OV_score_rows([best |-> OV_NoBest, best_score |-> <<0, 1>>,
                          scored |-> 0],
                         eng._compiled_rows, 1, inp.set), LAMBDA acc :
           [result |-> OV_answer(eng, inp.set, acc.best, acc.best_score),
            cache |-> inp.cache, scored |-> acc.scored]))

\* predict(symptoms) without the `if not symptoms` return
OV_predict_unguarded(eng, symptoms) == OV_predict_scored(eng, symptoms)

\* predict(symptoms): [result, cache, scored], scored counting the rows whose
\* Jaccard score was computed.
OV_predict(eng, symptoms) ==
    IF symptoms = <<>>
    THEN [result |-> [predicted_disease |-> "Unknown", confidence |-> 0,
                      medicine_recommendation |-> OV_MSG_PROVIDE,
                      diet_recommendation |-> OV_MSG_DASH,
                      status |-> "no_symptoms", debug |-> OV_NoDebug],
          cache |-> eng._normalize_cache, scored |-> 0]
    ELSE OV_predict_scored(eng, symptoms)

\* ------------------------------------------------------------------------
\* RandomForestDatasetEngine
\* ------------------------------------------------------------------------
\* _norm: returns the token and the cache after the call.
RF_norm(cache, s) ==
    IF s = <<>> THEN [v |-> <<>>, cache |-> cache]
    ELSE IF s \in DOMAIN cache THEN [v |-> cache[s], cache |-> cache]
    ELSE Bind(py_lower(py_strip(s)), LAMBDA v1 :
         Bind(py_replace(py_strip(space_re_sub(v1)), " ", "_"), LAMBDA v2 :
              [v |-> v2, cache |-> cache @@ (s :> v2)]))

\* [self._norm(p) for p in parts if p and p.lower() != 'nan']
RECURSIVE RF_norm_parts(_, _)
RF_norm_parts(cache, parts) ==
    IF parts = <<>> THEN [vs |-> <<>>, cache |-> cache]
    ELSE IF Head(parts) = <<>> \/ py_lower(Head(parts)) = <<"n","a","n">>
    THEN RF_norm_parts(cache, Tail(parts))
    ELSE Bind(RF_norm(cache, Head(parts)), LAMBDA h :
         Bind(RF_norm_parts(h.cache, Tail(parts)), LAMBDA t :
              [vs |-> <<h.v>> \o t.vs, cache |-> t.cache]))

\* [p.strip() for p in parts]
strip_each(parts) == [i \in 1..Len(parts) |-> py_strip(parts[i])]

\* _split_cell(cell) for a raw cell (NaN or str)
RF_split_cell(cache, cell) ==
    IF cell.nan \/ cell.s = <<>> THEN [parts |-> <<>>, cache |-> cache]
    ELSE Bind(RF_norm_parts(cache,
                  strip_each(IF py_in(",", cell.s) THEN py_split(cell.s, ",")
                             ELSE <<cell.s>>)),
              LAMBDA r : [parts |-> r.vs, cache |-> r.cache])

\* the inner loop of _prepare over the symptom columns of one row
RECURSIVE RF_row_symptoms(_, _)
RF_row_symptoms(cache, cells) ==
    IF cells = <<>> THEN [sset |-> {}, cache |-> cache]
    ELSE Bind(RF_split_cell(cache, Head(cells)), LAMBDA h :
         Bind(RF_row_symptoms(h.cache, Tail(cells)), LAMBDA t :
              [sset |-> {h.parts[i] :
                            i \in {j \in 1..Len(h.parts) : h.parts[j] # <<>>}}
                        \cup t.sset,
               cache |-> t.cache]))

\* the outer loop of _prepare: row_sets for rows idx.. of df
RECURSIVE RF_row_sets(_, _, _)
RF_row_sets(cache, df, idx) ==
    IF idx > Len(df) THEN [row_sets |-> <<>>, cache |-> cache]
    ELSE Bind(RF_row_symptoms(cache, df[idx].cells), LAMBDA h :
         Bind(RF_row_sets(h.cache, df, idx + 1), LAMBDA t :
              [row_sets |-> <<h.sset>> \o t.row_sets, cache |-> t.cache]))

\* reverse(s)
py_reversed(s) == [i \in 1..Len(s) |-> s[Len(s) + 1 - i]]

\* sorted(vocab, reverse=True)
RF_sorted_vocab_desc(vocab) == py_reversed(py_sorted(vocab))

\* sorted(vocab)
RF_sorted_vocab(vocab) == py_sorted(vocab)

\* {s: i for i, s in enumerate(self.symptom_vocab)}
RF_symptom_index(symptom_vocab) ==
    [s \in {symptom_vocab[i] : i \in 1..Len(symptom_vocab)} |->
        (CHOOSE i \in 1..Len(symptom_vocab) :
            symptom_vocab[i] = s
            /\ \A j \in (i + 1)..Len(symptom_vocab) : symptom_vocab[j] # s) - 1]

\* the assignments that end _prepare
RF_prepared(cache, row_sets, symptom_vocab) ==
    [_normalize_cache |-> cache,
     symptom_vocab |-> symptom_vocab,
     symptom_index |-> RF_symptom_index(symptom_vocab),
     _row_symptom_sets |-> row_sets]

\* _prepare: the engine's attributes before training
RF_prepare(df) ==
    Bind(RF_row_sets(EmptyCache, df, 1), LAMBDA r :
         RF_prepared(r.cache, r.row_sets,
             RF_sorted_vocab(UNION {r.row_sets[i] : i \in 1..Len(r.row_sets)})))

\* the vector started afresh at every recognized symptom
RF_set_bit_fresh(vec, symptom_index, ns) ==
    IF ns \in DOMAIN symptom_index
    THEN [i \in 1..Len(vec) |-> IF i = symptom_index[ns] + 1 THEN 1 ELSE 0]
    ELSE vec

\* vec[idx] = 1 if idx is not None
RF_set_bit(vec, symptom_index, ns) ==
    IF ns \in DOMAIN symptom_index
    THEN [vec EXCEPT ![symptom_index[ns] + 1] = 1]
    ELSE vec

\* _vectorize(symptoms): the loop, from the vector vec on
RECURSIVE RF_vectorize_from(_, _, _, _)
RF_vectorize_from(vec, cache, symptom_index, symptoms) ==
    IF symptoms = <<>> THEN [vec |-> vec, cache |-> cache]
    ELSE Bind(RF_norm(cache, Head(symptoms)), LAMBDA n :
              RF_vectorize_from(RF_set_bit(vec, symptom_index, n.v), n.cache,
                                symptom_index, Tail(symptoms)))

\* _vectorize(symptoms): bit i (0-based) is element i + 1 of vec
RF_vectorize(eng, symptoms) ==
    RF_vectorize_from([i \in 1..Len(eng.symptom_vocab) |-> 0],
                      eng._normalize_cache, eng.symptom_index, symptoms)

\* vec.sum()
RECURSIVE vec_sum(_)
vec_sum(vec) == IF vec = <<>> THEN 0 ELSE Head(vec) + vec_sum(Tail(vec))

\* the display forms with the underscores dropped instead of replaced
RF_get_available_symptoms_joined(eng) ==
    [i \in 1..Len(eng.symptom_vocab) |->
        py_title(SelectSeq(eng.symptom_vocab[i], LAMBDA c : c # "_"))]

\* get_available_symptoms
RF_get_available_symptoms(eng) ==
    [i \in 1..Len(eng.symptom_vocab) |->
        py_title(py_replace(eng.symptom_vocab[i], "_", " "))]

\* The disease labels of the model's datasets in ascending str order, the
\* order np.unique gives classes_.
Diseases == <<"Allergy", "Cold", "Flu">>

disease_rank(d) == CHOOSE i \in 1..Len(Diseases) : Diseases[i] = d

\* sorted unique labels of a set of labels
RECURSIVE sorted_labels(_)
sorted_labels(S) ==
    IF S = {} THEN <<>>
    ELSE LET m == CHOOSE x \in S : \A y \in S : disease_rank(x) <= disease_rank(y)
         IN <<m>> \o sorted_labels(S \ {m})

\* the outcomes of train_test_split and fit on the samples
RF_split_fit(df, samples, labels, n, n_test, use_stratify) ==
    IF n = 0 THEN {[ok |-> FALSE, classes |-> <<>>]}
    ELSE IF n - n_test = 0 THEN {[ok |-> FALSE, classes |-> <<>>]}
    ELSE IF use_stratify
    THEN IF n - n_test < Cardinality(labels) \/ n_test < Cardinality(labels)
         THEN {[ok |-> FALSE, classes |-> <<>>]}
         ELSE {[ok |-> TRUE, classes |-> sorted_labels(labels)]}
    ELSE {[ok |-> TRUE, classes |-> sorted_labels({df[i].disease : i \in S})] :
             S \in {T \in SUBSET samples : Cardinality(T) = n - n_test}}

\* the samples of _train: the rows with a non-empty symptom set
RF_samples(df, eng) == {i \in 1..Len(df) : eng._row_symptom_sets[i] # {}}

\* _train: the outcomes of training.  The rows with a non-empty symptom set
\* are the samples; train_test_split holds out ceil(0.25 n) of them, chosen
\* by the library's shuffle (any subset here), stratified by label when every
\* label has two samples; the split raises ValueError when a side is too
\* small.  The fitted model is known by classes_, the sorted labels of the
\* training side.
RF_train(df, eng) ==
    RF_split_fit(df, RF_samples(df, eng),
        {df[i].disease : i \in RF_samples(df, eng)},
        Cardinality(RF_samples(df, eng)),
        (Cardinality(RF_samples(df, eng)) + 3) \div 4,
        \A i \in RF_samples(df, eng) :
            Cardinality({j \in RF_samples(df, eng) :
                            df[j].disease = df[i].disease}) >= 2)

\* the literal texts of the random-forest engine's results
RF_MSG_PROVIDE == <<"P","r","o","v","i","d","e"," ","a","t"," ","l","e","a","s","t",
                    " ","o","n","e"," ","s","y","m","p","t","o","m">>
\* the em dash of the source, written as a hyphen
RF_MSG_DASH == <<"-">>
RF_MSG_NOT_READY == <<"M","o","d","e","l"," ","n","o","t"," ","r","e","a","d","y">>
RF_MSG_NOT_FOUND == <<"S","y","m","p","t","o","m","s"," ","n","o","t"," ","f","o",
                      "u","n","d"," ","i","n"," ","d","a","t","a","s","e","t"," ",
                      "v","o","c","a","b","u","l","a","r","y">>
RF_MSG_CONSULT == <<"C","o","n","s","u","l","t"," ","a"," ","h","e","a","l","t",
                    "h","c","a","r","e"," ","p","r","o","v","i","d","e","r">>
RF_MSG_DIET == <<"M","a","i","n","t","a","i","n"," ","a"," ","b","a","l","a","n",
                 "c","e","d"," ","d","i","e","t">>
RF_MSG_AVOID == <<"N","o"," ","s","p","e","c","i","f","i","c"," ","f","o","o","d",
                  "s"," ","t","o"," ","a","v","o","i","d"," ","m","e","n","t","i",
                  "o","n","e","d">>

\* {self._norm(s) for s in input_symptoms if s}
RECURSIVE RF_input_norm(_, _)
RF_input_norm(cache, symptoms) ==
    IF symptoms = <<>> THEN [set |-> {}, cache |-> cache]
    ELSE IF Head(symptoms) = <<>> THEN RF_input_norm(cache, Tail(symptoms))
    ELSE Bind(RF_norm(cache, Head(symptoms)), LAMBDA h :
         Bind(RF_input_norm(h.cache, Tail(symptoms)), LAMBDA t :
              [set |-> {h.v} \cup t.set, cache |-> t.cache]))

\* the row loop with `>=` in place of `>`: the last row of the largest
\* intersection
RECURSIVE RF_best_row_last(_, _, _, _, _, _, _)
RF_best_row_last(df, eng, disease, input_norm, k, best_row, best_inter_size) ==
    IF k > Len(df) THEN best_row
    ELSE IF df[k].disease # disease
    THEN RF_best_row_last(df, eng, disease, input_norm, k + 1, best_row,
                          best_inter_size)
    ELSE IF Cardinality(input_norm \cap eng._row_symptom_sets[k]) >= best_inter_size
    THEN RF_best_row_last(df, eng, disease, input_norm, k + 1, k,
                          Cardinality(input_norm \cap eng._row_symptom_sets[k]))
    ELSE RF_best_row_last(df, eng, disease, input_norm, k + 1, best_row,
                          best_inter_size)

\* the row loop of _best_recommendations from row k on: the position of
\* best_row (0 for None)
RECURSIVE RF_best_row(_, _, _, _, _, _, _)
RF_best_row(df, eng, disease, input_norm, k, best_row, best_inter_size) ==
    IF k > Len(df) THEN best_row
    ELSE IF df[k].disease # disease
    THEN RF_best_row(df, eng, disease, input_norm, k + 1, best_row,
                     best_inter_size)
    ELSE IF Cardinality(input_norm \cap eng._row_symptom_sets[k]) > best_inter_size
    THEN RF_best_row(df, eng, disease, input_norm, k + 1, k,
                     Cardinality(input_norm \cap eng._row_symptom_sets[k]))
    ELSE RF_best_row(df, eng, disease, input_norm, k + 1, best_row,
                     best_inter_size)

\* m, replaced by the default when it is empty, 'nan' or 'none'
RF_text_or(m, default) ==
    IF m = <<>> \/ py_lower(m) \in {<<"n","a","n">>, <<"n","o","n","e">>, <<>>}
    THEN default ELSE m

\* str(row.get(col, '')).strip() and its default
RF_text(cell, default) == RF_text_or(py_strip(py_str(cell)), default)

\* the texts of the chosen row
RF_row_texts(row, b, cache) ==
    [med |-> RF_text(row.medicine, RF_MSG_CONSULT),
     diet |-> RF_text(row.diet, RF_MSG_DIET),
     avoid |-> RF_text(row.avoid, RF_MSG_AVOID),
     row |-> b,
     cache |-> cache]

\* the first row of the disease: self.df[self.df[disease_col] == disease].iloc[0]
RF_first_row(df, disease) ==
    df[CHOOSE i \in 1..Len(df) :
          df[i].disease = disease /\ \A j \in 1..(i - 1) : df[j].disease # disease]

\* _best_recommendations(disease, input_symptoms); disease is a label of df
RF_best_recommendations(df, eng, cache, disease, input_symptoms) ==
    Bind(RF_input_norm(cache, input_symptoms), LAMBDA inp :
    Bind(RF_best_row(df, eng, disease, inp.set, 1, 0, -1), LAMBDA b :
         RF_row_texts(IF b # 0 THEN df[b] ELSE RF_first_row(df, disease),
                      b, inp.cache)))

\* int(np.argmax(proba)): the first index of the maximum (1-based here)
np_argmax(proba) ==
    CHOOSE i \in 1..Len(proba) :
        /\ \A j \in 1..Len(proba) : proba[j] <= proba[i]
        /\ \A j \in 1..(i - 1) : proba[j] < proba[i]

\* np.argsort(proba): the index orders that sort proba ascending.  The default
\* sort is not stable, so equal probabilities may come in any order.
np_argsort(proba) ==
    {p \in [1..Len(proba) -> 1..Len(proba)] :
        /\ \A i, j \in 1..Len(proba) : i # j => p[i] # p[j]
        /\ \A i \in 1..(Len(proba) - 1) : proba[p[i]] <= proba[p[i + 1]]}

\* order[::-1][:3]
top3(order) ==
    [i \in 1..(IF Len(order) < 3 THEN Len(order) ELSE 3) |->
        order[Len(order) + 1 - i]]

\* the candidates list built from order
RF_candidates(classes, proba, order) ==
    [i \in 1..Len(order) |->
        [disease |-> classes[order[i]],
         confidence |-> py_round1(proba[order[i]], ProbaUnits)]]

\* the success return of predict
RF_success(top_disease, confidence, rec, candidates, vec) ==
    [result |-> [predicted_disease |-> top_disease,
                 confidence |-> confidence,
                 medicine_recommendation |-> rec.med,
                 diet_recommendation |-> rec.diet,
                 foods_to_avoid |-> rec.avoid,
                 status |-> "success",
                 candidates |-> candidates],
     cache |-> rec.cache, invoked |-> TRUE, vec |-> vec, row |-> rec.row]

\* predict(symptoms): [result, cache, invoked, vec, row]; proba is what
\* predict_proba returns (in units of 1/ProbaUnits), sorted what np.argsort
\* returns, invoked tells whether the classifier was called, vec is what
\* _vectorize returned (<<>> when it was not called), and row is the position
\* of the row _best_recommendations took its texts from (0 when it was not
\* called).
RF_predict(df, eng, symptoms, proba, sorted) ==
    IF symptoms = <<>>
    THEN [result |-> [predicted_disease |-> "Unknown", confidence |-> 0,
                      medicine_recommendation |-> RF_MSG_PROVIDE,
                      diet_recommendation |-> RF_MSG_DASH,
                      foods_to_avoid |-> RF_MSG_DASH,
                      status |-> "no_symptoms", candidates |-> <<>>],
          cache |-> eng._normalize_cache, invoked |-> FALSE, vec |-> <<>>,
          row |-> 0]
    ELSE IF ~eng.model.fitted
    THEN [result |-> [predicted_disease |-> "Unknown", confidence |-> 0,
                      medicine_recommendation |-> RF_MSG_NOT_READY,
                      diet_recommendation |-> RF_MSG_DASH,
                      foods_to_avoid |-> RF_MSG_DASH,
                      status |-> "error", candidates |-> <<>>],
          cache |-> eng._normalize_cache, invoked |-> FALSE, vec |-> <<>>,
          row |-> 0]
    ELSE
    Bind(RF_vectorize(eng, symptoms), LAMBDA v :
      IF vec_sum(v.vec) = 0
      THEN [result |-> [predicted_disease |-> "Unknown", confidence |-> 0,
                        medicine_recommendation |-> RF_MSG_NOT_FOUND,
                        diet_recommendation |-> RF_MSG_DASH,
                        foods_to_avoid |-> RF_MSG_DASH,
                        status |-> "unrecognized", candidates |-> <<>>],
            cache |-> v.cache, invoked |-> FALSE, vec |-> v.vec, row |-> 0]
      ELSE
      Bind(np_argmax(proba), LAMBDA top_idx :
           RF_success(eng.model.classes[top_idx],
                      py_round1(proba[top_idx], ProbaUnits),
                      RF_best_recommendations(df, eng, v.cache,
                          eng.model.classes[top_idx], symptoms),
                      RF_candidates(eng.model.classes, proba, top3(sorted)),
                      v.vec)))

\* ------------------------------------------------------------------------
\* The datasets and the requests of the model
\* ------------------------------------------------------------------------
fever == <<"f","e","v","e","r">>
cough == <<"c","o","u","g","h">>
fatigue == <<"f","a","t","i","g","u","e">>
sneezing == <<"s","n","e","e","z","i","n","g">>

\* one line of the dataset file: the label, the symptom columns in file
\* order, and the recommendation columns
Row(disease, cells, medicine, diet, avoid) ==
    [disease |-> disease, cells |-> cells, medicine |-> medicine,
     diet |-> diet, avoid |-> avoid]

RowFlu ==
    Row("Flu", <<Str(fever), Str(cough), Str(fatigue)>>,
        Str(<<"R","e","s","t">>), Str(<<" ","S","o","u","p"," ">>), NaN)
\* the third symptom cell is missing
RowColdMissing ==
    Row("Cold", <<Str(cough), Str(sneezing), NaN>>,
        NaN, Str(<<" ">>), Str(<<"I","c","e">>))
\* cells that need normalizing, one symptom twice
RowColdRaw ==
    Row("Cold", <<Str(<<" ","C","o","u","g","h">>),
                  Str(<<"S","N","E","E","Z","I","N","G">>), Str(sneezing)>>,
        Str(<<"T","e","a">>), NaN, Str(<<" ","N","o","n","e">>))
RowFever ==
    Row("Flu", <<Str(fever), Str(fever), Str(fever)>>,
        Str(<<" ","n","a","n">>), Str(<<"S","o","u","p">>), Str(<<" ">>))
\* a comma-separated cell, and a symptom of two words
RowAllergy ==
    Row("Allergy", <<Str(fever \o <<",", " ">> \o cough), Str(fatigue),
                     Str(<<"I","t","c","h","y","_"," ","E","y","e","s">>)>>,
        Str(<<"P","i","l","l">>), Str(<<"R","i","c","e">>), Str(<<"N","u","t">>))
\* no symptom at all
RowBlank ==
    Row("Allergy", <<NaN, Str(<<" ">>), Str(<<",">>)>>, NaN, NaN, NaN)

RowPool == {RowFlu, RowColdMissing, RowColdRaw, RowFever, RowAllergy, RowBlank}

\* the longest dataset of the model, in rows
MaxRows == 2

RECURSIVE SeqsUpTo(_, _)
SeqsUpTo(S, n) ==
    IF n = 0 THEN {<<>>}
    ELSE LET shorter == SeqsUpTo(S, n - 1)
         IN shorter \cup {Append(q, x) : q \in {r \in shorter : Len(r) = n - 1},
                                          x \in S}

\* a dataset of three diseases, one of them on two rows
ExampleTables == {<<RowFlu, RowColdRaw, RowAllergy, RowFever>>}

\* the datasets of up to MaxRows rows
ShortTables == SeqsUpTo(RowPool, MaxRows)

Tables == ShortTables \cup ExampleTables

\* min_threshold: the default 0.12, and one half
Thresholds == {<<12, 100>>, <<1, 2>>}

\* what a request may name as a symptom: a raw spelling of fever, the token
\* cough, a symptom of no dataset and the empty string
RawSymptoms ==
    {<<" ","F","e","v","e","r","_">>, cough, <<"x","y","z">>, <<>>}

\* the longest symptom list of a request, the lists of whole rows aside
MaxInputLen == 2

\* the two requests of the Flu / Cold example
ExampleRequests == {<<fever, cough, fatigue>>, <<sneezing, cough>>}

Requests == SeqsUpTo(RawSymptoms, MaxInputLen) \cup ExampleRequests

\* ------------------------------------------------------------------------
\* State
\* ------------------------------------------------------------------------
VARIABLES
    df,             \* the rows of the dataset file
    kind,           \* which engine the process runs: "overlap" or "rf"
    min_threshold,  \* the min_threshold argument of the overlap engine
    phase,          \* "new", "ready" (constructed) or "failed" (__init__ raised)
    ov,             \* the DatasetOverlapPredictionEngine instance
    rf,             \* the RandomForestDatasetEngine instance
    call,           \* the last call on the engine and what it returned
    dataset,        \* the file in ml_prediction/data: whether it can be
                    \* read, its name and its symptom columns
    engine_singleton, \* rf_prediction_engine._engine_singleton: 0 is None,
                    \* k > 0 the k-th engine constructed
    instances,      \* the engines constructed by get_engine(), in order
    threads,        \* per request thread: where it is and its locals
    response,       \* the last response of a view
    db,             \* the table DiseasePrediction
    appointments,   \* the Appointment rows, in order of creation (id = index)
    messages,       \* the Message rows, in order of creation (id = index)
    edit_history,   \* the MessageEditHistory rows, in order of creation
    availability,   \* the DoctorAvailability rows
    requests,       \* per in-flight request: where it is and its locals
    deleted_for_me  \* history: <<user, message id>> of every delete 'for me'

vars == <<df, kind, min_threshold, phase, ov, rf, call,
          dataset, engine_singleton, instances, threads, response, db,
          appointments, messages, edit_history, availability, requests,
          deleted_for_me>>

\* the tables of the patients and doctors apps and the requests on them
clinic == <<appointments, messages, edit_history, availability, requests,
            deleted_for_me>>

\* empty tables, no request
ClinicIdle ==
    /\ appointments = <<>>
    /\ messages = <<>>
    /\ edit_history = <<>>
    /\ availability = {}
    /\ requests = <<>>
    /\ deleted_for_me = {}

\* the one file of ml_prediction/data: state is "ok", "missing" (no file) or
\* "unparseable" (the read raises), name the file name, columns the prefixes
\* of its symptom columns ('Symptom 1', ... or 'Symptom_1', ...)
DatasetFile(state, name, columns) ==
    [state |-> state, name |-> name, columns |-> columns]

\* the name the legacy engine reads, third of the RF engine's preferred_files
LEGACY_NAME == "dataset_with_recommendations.csv"

\* _SYM_COL_PREFIX of rf_prediction_engine, and the prefix of prediction_engine
RF_SYM_COL_PREFIX == "Symptom "
LEGACY_SYM_COL_PREFIX == "Symptom_"

\* a file in the layout of the RF engine, under the first preferred name
RF_FILE == DatasetFile("ok", "Disease.xlsx", {RF_SYM_COL_PREFIX})
\* a file in the layout of the legacy engine
LEGACY_FILE == DatasetFile("ok", LEGACY_NAME, {LEGACY_SYM_COL_PREFIX})
\* an empty data directory
MISSING_FILE == DatasetFile("missing", "", {})
\* a file that pandas cannot parse
UNPARSEABLE_FILE == DatasetFile("unparseable", LEGACY_NAME, {})

\* the DataFrame as an engine sees it: the cells of the symptom columns when
\* the file has columns with the engine's prefix, no symptom column otherwise
symptom_columns(file, df_, prefix) ==
    IF prefix \in file.columns THEN df_
    ELSE [i \in 1..Len(df_) |-> [df_[i] EXCEPT !.cells = <<>>]]

\* the table DiseasePrediction: seq is the last id given out (the id column
\* is AUTOINCREMENT: an id is not given twice), rows the rows by id
NoPredictions == [seq |-> 0, rows |-> {}]

\* self.df of RandomForestDatasetEngine
RF_df(file, df_) == symptom_columns(file, df_, RF_SYM_COL_PREFIX)

\* the state of the serving process
server == <<dataset, engine_singleton, instances, threads, response, db, clinic>>

\* no thread, no request: the module was just imported
ServerIdle ==
    /\ dataset = RF_FILE
    /\ engine_singleton = 0
    /\ instances = <<>>
    /\ threads = <<>>
    /\ response = [view |-> "none"]
    /\ db = NoPredictions
    /\ ClinicIdle

OV_None ==
    [min_threshold |-> <<0, 1>>, _compiled_rows |-> <<>>,
     _normalize_cache |-> EmptyCache, available_symptoms |-> <<>>]

RF_None ==
    [_normalize_cache |-> EmptyCache, symptom_vocab |-> <<>>,
     symptom_index |-> EmptyCache, _row_symptom_sets |-> <<>>,
     model |-> [fitted |-> FALSE, classes |-> <<>>]]

NoCall == [op |-> "none"]

Init ==
    /\ kind \in {"overlap", "rf"}
    /\ df \in (IF kind = "overlap" THEN ShortTables ELSE Tables)
    /\ min_threshold \in (IF kind = "overlap" THEN Thresholds ELSE {<<12, 100>>})
    /\ phase = "new"
    /\ ov = OV_None
    /\ rf = RF_None
    /\ call = NoCall
    /\ ServerIdle

\* DatasetOverlapPredictionEngine(dataset_path, min_threshold)
OvConstruct ==
    /\ kind = "overlap" /\ phase = "new"
    /\ ov' = OV_prepare(df, min_threshold)
    /\ phase' = "ready"
    /\ call' = [op |-> "init"]
    /\ UNCHANGED <<df, kind, min_threshold, rf>>
    /\ UNCHANGED server

\* the engine once _train has fitted the model
RF_engine(e, classes) ==
    [_normalize_cache |-> e._normalize_cache,
     symptom_vocab |-> e.symptom_vocab,
     symptom_index |-> e.symptom_index,
     _row_symptom_sets |-> e._row_symptom_sets,
     model |-> [fitted |-> TRUE, classes |-> classes]]

\* the engines that RandomForestDatasetEngine() may return
RF_engines(df_, e) == {RF_engine(e, m.classes) : m \in {x \in RF_train(df_, e) : x.ok}}

\* RandomForestDatasetEngine(): _prepare and _train complete
RfConstruct ==
    /\ kind = "rf" /\ phase = "new"
    /\ rf' \in RF_engines(df, RF_prepare(df))
    /\ phase' = "ready"
    /\ call' = [op |-> "init"]
    /\ UNCHANGED <<df, kind, min_threshold, ov>>
    /\ UNCHANGED server

\* RandomForestDatasetEngine(): _train raises ValueError, no engine exists
RfConstructRaises ==
    /\ kind = "rf" /\ phase = "new"
    /\ \E m \in RF_train(df, RF_prepare(df)) : ~m.ok
    /\ phase' = "failed"
    /\ call' = [op |-> "init"]
    /\ UNCHANGED <<df, kind, min_threshold, ov, rf>>
    /\ UNCHANGED server

\* the symptom lists of the requests: the short lists, and for every row of
\* the engine its own symptoms in sorted order
OvRequests ==
    Requests \cup {py_sorted(ov._compiled_rows[i].symptoms) :
                      i \in 1..Len(ov._compiled_rows)}

\* the display forms that hold a space
TwoWords(names) == SelectSeq(names, LAMBDA s : py_in(" ", s))

\* the requests on the dataset of three diseases: the empty list, a symptom
\* of no dataset, raw and normalized spellings, and lists taken from
\* get_available_symptoms()
ForestRequests(eng) ==
    {<<>>, <<<<"x","y","z">>>>, <<<<" ","F","e","v","e","r","_">>, cough>>,
     <<cough>>, <<fever, fatigue>>,
     RF_get_available_symptoms(eng),
     TwoWords(RF_get_available_symptoms(eng))}

RfRequests ==
    IF df \in ExampleTables THEN ForestRequests(rf)
    ELSE Requests \cup {py_sorted(rf._row_symptom_sets[i]) :
                           i \in 1..Len(rf._row_symptom_sets)}

\* the state after predict returned r
OvReturn(symptoms, r) ==
    /\ ov' = [ov EXCEPT !._normalize_cache = r.cache]
    /\ call' = [op |-> "predict", symptoms |-> symptoms,
                result |-> r.result, scored |-> r.scored,
                mutated |-> (r.cache # ov._normalize_cache)]

\* DatasetOverlapPredictionEngine.predict(symptoms)
OvPredict ==
    /\ kind = "overlap" /\ phase = "ready"
    /\ \E symptoms \in OvRequests : OvReturn(symptoms, OV_predict(ov, symptoms))
    /\ UNCHANGED <<df, kind, min_threshold, phase, rf>>
    /\ UNCHANGED server

\* what predict_proba may return for n classes: n shares of ProbaUnits
ProbaVectors(n) ==
    {p \in [1..n -> 0..ProbaUnits] : vec_sum(p) = ProbaUnits}

\* the state after predict returned r
RfReturn(symptoms, proba, r) ==
    /\ rf' = [rf EXCEPT !._normalize_cache = r.cache]
    /\ call' = [op |-> "predict", symptoms |-> symptoms,
                result |-> r.result, invoked |-> r.invoked,
                proba |-> proba,
                vec |-> r.vec,
                row |-> r.row,
                mutated |-> (r.cache # rf._normalize_cache)]

\* what predict_proba may return on this request; <<>> when predict returns
\* before the classifier is asked
RF_probas(eng, symptoms) ==
    IF symptoms = <<>> THEN {<<>>}
    ELSE IF vec_sum(RF_vectorize(eng, symptoms).vec) = 0 THEN {<<>>}
    ELSE ProbaVectors(Len(eng.model.classes))

\* RandomForestDatasetEngine.predict(symptoms)
RfPredict ==
    /\ kind = "rf" /\ phase = "ready"
    /\ \E symptoms \in RfRequests :
       \E proba \in RF_probas(rf, symptoms) :
       \E sorted \in np_argsort(proba) :
           RfReturn(symptoms, proba, RF_predict(df, rf, symptoms, proba, sorted))
    /\ UNCHANGED <<df, kind, min_threshold, phase, ov>>
    /\ UNCHANGED server

\* RandomForestDatasetEngine.get_available_symptoms()
RfGetAvailableSymptoms ==
    /\ kind = "rf" /\ phase = "ready"
    /\ call' = [op |-> "get_available_symptoms",
                result |-> RF_get_available_symptoms(rf)]
    /\ UNCHANGED <<df, kind, min_threshold, phase, ov, rf>>
    /\ UNCHANGED server

Next ==
    \/ OvConstruct
    \/ RfConstruct
    \/ RfConstructRaises
    \/ OvPredict
    \/ RfPredict
    \/ RfGetAvailableSymptoms

Spec == Init /\ [][Next]_vars

\* ------------------------------------------------------------------------
\* Calls of _norm on a constructed engine
\* ------------------------------------------------------------------------
\* the characters of the raw strings: an upper-case letter, a lower-case
\* letter, the space and the underscore
NormAlphabet == {"A", "b", " ", "_"}

\* the longest raw string
MaxStrLen == 3

NormStrings == SeqsUpTo(NormAlphabet, MaxStrLen)

\* the dataset of the engine whose _norm is called
NormTable == <<RowFlu, RowColdRaw>>

\* _norm is called while the cache holds fewer entries than this
MaxCache == 8

InitNorm ==
    /\ df = NormTable
    /\ kind \in {"overlap", "rf"}
    /\ min_threshold = <<12, 100>>
    /\ phase = "ready"
    /\ ov = (IF kind = "overlap" THEN OV_prepare(df, min_threshold) ELSE OV_None)
    /\ rf \in (IF kind = "rf" THEN RF_engines(df, RF_prepare(df)) ELSE {RF_None})
    /\ call = [op |-> "init"]
    /\ ServerIdle

\* the state after self._norm(self._norm(s)): inner is what the inner call
\* returned, outer what the outer call returned
NormReturn(s, inner, outer) ==
    call' = [op |-> "_norm", s |-> s, inner |-> inner.v, outer |-> outer.v]

\* DatasetOverlapPredictionEngine: self._norm(self._norm(s))
OvNorm ==
    /\ kind = "overlap" /\ phase = "ready"
    /\ Cardinality(DOMAIN ov._normalize_cache) < MaxCache
    /\ \E s \in NormStrings :
         Bind(OV_norm(ov._normalize_cache, s), LAMBDA inner :
         Bind(OV_norm(inner.cache, inner.v), LAMBDA outer :
              /\ ov' = [ov EXCEPT !._normalize_cache = outer.cache]
              /\ NormReturn(s, inner, outer)))
    /\ UNCHANGED <<df, kind, min_threshold, phase, rf>>
    /\ UNCHANGED server

\* RandomForestDatasetEngine: self._norm(self._norm(s))
RfNorm ==
    /\ kind = "rf" /\ phase = "ready"
    /\ Cardinality(DOMAIN rf._normalize_cache) < MaxCache
    /\ \E s \in NormStrings :
         Bind(RF_norm(rf._normalize_cache, s), LAMBDA inner :
         Bind(RF_norm(inner.cache, inner.v), LAMBDA outer :
              /\ rf' = [rf EXCEPT !._normalize_cache = outer.cache]
              /\ NormReturn(s, inner, outer)))
    /\ UNCHANGED <<df, kind, min_threshold, phase, ov>>
    /\ UNCHANGED server

NextNorm ==
    \/ OvNorm
    \/ RfNorm

SpecNorm == InitNorm /\ [][NextNorm]_vars

\* ------------------------------------------------------------------------
\* get_engine() called from several request threads
\* ------------------------------------------------------------------------
\* the request threads of the server
MaxThreads == 3

Threads == 1..MaxThreads

\* the dataset of the served engine
ServedTable == <<RowFlu, RowColdRaw>>

\* a thread outside get_engine(): inst is the engine it constructed (0: none),
\* ret what its last call returned (0: nothing yet)
IdleThread == [pc |-> "idle", inst |-> 0, ret |-> 0]

\* the threads exist, nobody has called get_engine() yet
InitSingleton ==
    /\ dataset \in {RF_FILE, MISSING_FILE, UNPARSEABLE_FILE}
    /\ df \in (IF dataset.state = "ok" THEN {ServedTable, <<>>} ELSE {<<>>})
    /\ kind = "rf"
    /\ min_threshold = <<12, 100>>
    /\ phase = "new"
    /\ ov = OV_None
    /\ rf = RF_None
    /\ call = NoCall
    /\ engine_singleton = 0
    /\ instances = <<>>
    /\ threads = [t \in Threads |-> IdleThread]
    /\ response = [view |-> "none"]
    /\ db = NoPredictions
    /\ ClinicIdle

\* what does not change while threads run get_engine()
process ==
    <<df, kind, min_threshold, phase, ov, rf, call, dataset, response, db,
      clinic>>

\* thread t moves to pc
Goto(t, pc) == threads' = [threads EXCEPT ![t].pc = pc]

\* if _engine_singleton is None:
GetEngineTest(t) ==
    /\ threads[t].pc = "idle"
    /\ Goto(t, IF engine_singleton = 0 THEN "construct" ELSE "return")
    /\ UNCHANGED <<engine_singleton, instances>>
    /\ UNCHANGED process

\* RandomForestDatasetEngine() returns a new engine
GetEngineConstruct(t) ==
    /\ threads[t].pc = "construct"
    /\ dataset.state = "ok"
    /\ \E e \in RF_engines(RF_df(dataset, df), RF_prepare(RF_df(dataset, df))) :
           instances' = Append(instances, e)
    /\ threads' = [threads EXCEPT ![t].pc = "assign",
                                  ![t].inst = Len(instances) + 1]
    /\ UNCHANGED engine_singleton
    /\ UNCHANGED process

\* RandomForestDatasetEngine() raises: no dataset file (FileNotFoundError),
\* a file that read_csv cannot parse, or no row to train on (ValueError)
GetEngineConstructRaises(t) ==
    /\ threads[t].pc = "construct"
    /\ \/ dataset.state # "ok"
       \/ \E m \in RF_train(RF_df(dataset, df),
                            RF_prepare(RF_df(dataset, df))) : ~m.ok
    /\ Goto(t, "raised")
    /\ UNCHANGED <<engine_singleton, instances>>
    /\ UNCHANGED process

\* _engine_singleton = <the new engine>
GetEngineAssign(t) ==
    /\ threads[t].pc = "assign"
    /\ engine_singleton' = threads[t].inst
    /\ Goto(t, "return")
    /\ UNCHANGED instances
    /\ UNCHANGED process

\* return _engine_singleton
GetEngineReturn(t) ==
    /\ threads[t].pc = "return"
    /\ threads' = [threads EXCEPT ![t].pc = "done",
                                  ![t].ret = engine_singleton]
    /\ UNCHANGED <<engine_singleton, instances>>
    /\ UNCHANGED process

\* the thread serves its next request
NextRequest(t) ==
    /\ threads[t].pc \in {"done", "raised"}
    /\ Goto(t, "idle")
    /\ UNCHANGED <<engine_singleton, instances>>
    /\ UNCHANGED process

NextSingleton ==
    \E t \in Threads :
        \/ GetEngineTest(t)
        \/ GetEngineConstruct(t)
        \/ GetEngineConstructRaises(t)
        \/ GetEngineAssign(t)
        \/ GetEngineReturn(t)
        \/ NextRequest(t)

SpecSingleton == InitSingleton /\ [][NextSingleton]_vars

\* ------------------------------------------------------------------------
\* _norm called from several request threads on one engine
\* ------------------------------------------------------------------------
\* the threads inside predict, each calling _norm
NormThreads == 2

\* the strings the threads normalize: the empty string, a cell of the
\* dataset, and spellings that are in no cell
SharedStrings ==
    {<<>>, cough, <<"A"," ">>, <<"A","_","b">>, <<" ","b">>}

\* a thread outside _norm
IdleNorm == [pc |-> "idle", s |-> <<>>, v |-> <<>>, ret |-> <<>>]

InitNormThreads ==
    /\ df = NormTable
    /\ kind \in {"overlap", "rf"}
    /\ min_threshold = <<12, 100>>
    /\ phase = "ready"
    /\ ov = (IF kind = "overlap" THEN OV_prepare(df, min_threshold) ELSE OV_None)
    /\ rf \in (IF kind = "rf" THEN RF_engines(df, RF_prepare(df)) ELSE {RF_None})
    /\ call = [op |-> "init"]
    /\ dataset = RF_FILE
    /\ engine_singleton = 0
    /\ instances = <<>>
    /\ threads = [t \in 1..NormThreads |-> IdleNorm]
    /\ response = [view |-> "none"]
    /\ db = NoPredictions
    /\ ClinicIdle

\* self._normalize_cache of the engine the process runs
shared_cache ==
    IF kind = "overlap" THEN ov._normalize_cache ELSE rf._normalize_cache

\* the store with key and value exchanged
cache_store_swapped(cache, s, v) == (v :> s) @@ cache

\* self._normalize_cache[s] = v
cache_store(cache, s, v) == (s :> v) @@ cache

\* the value _norm computes for s when s is not a key of the cache
norm_value(s) ==
    IF kind = "overlap" THEN OV_norm(EmptyCache, s).v
    ELSE RF_norm(EmptyCache, s).v

\* what _norm leaves alone
norm_frame ==
    <<df, kind, min_threshold, phase, call, dataset, engine_singleton,
      instances, response, db, clinic>>

\* _norm(s) entered: the tests 'not s' and 's in self._normalize_cache'
ThreadNormCall(t) ==
    /\ threads[t].pc = "idle"
    /\ \E s \in SharedStrings :
         threads' = [threads EXCEPT ![t] =
             IF s = <<>> THEN [pc |-> "done", s |-> s, v |-> <<>>, ret |-> <<>>]
             ELSE IF s \in DOMAIN shared_cache
                  THEN [pc |-> "hit", s |-> s, v |-> <<>>, ret |-> <<>>]
                  ELSE [pc |-> "miss", s |-> s, v |-> <<>>, ret |-> <<>>]]
    /\ UNCHANGED <<ov, rf>>
    /\ UNCHANGED norm_frame

\* return self._normalize_cache[s]
ThreadNormHit(t) ==
    /\ threads[t].pc = "hit"
    /\ threads' = [threads EXCEPT ![t].pc = "done",
                                  ![t].ret = shared_cache[threads[t].s]]
    /\ UNCHANGED <<ov, rf>>
    /\ UNCHANGED norm_frame

\* v = ...; self._normalize_cache[s] = v
ThreadNormMiss(t) ==
    /\ threads[t].pc = "miss"
    /\ threads' = [threads EXCEPT ![t].pc = "stored",
                                  ![t].v = norm_value(threads[t].s)]
    /\ IF kind = "overlap"
       THEN /\ ov' = [ov EXCEPT !._normalize_cache =
                         cache_store(@, threads[t].s, norm_value(threads[t].s))]
            /\ rf' = rf
       ELSE /\ rf' = [rf EXCEPT !._normalize_cache =
                         cache_store(@, threads[t].s, norm_value(threads[t].s))]
            /\ ov' = ov
    /\ UNCHANGED norm_frame

\* return v
ThreadNormReturn(t) ==
    /\ threads[t].pc = "stored"
    /\ threads' = [threads EXCEPT ![t].pc = "done", ![t].ret = threads[t].v]
    /\ UNCHANGED <<ov, rf>>
    /\ UNCHANGED norm_frame

\* the caller goes on to its next _norm call
ThreadNormNext(t) ==
    /\ threads[t].pc = "done"
    /\ threads' = [threads EXCEPT ![t] = IdleNorm]
    /\ UNCHANGED <<ov, rf>>
    /\ UNCHANGED norm_frame

NextNormThreads ==
    \E t \in 1..NormThreads :
        \/ ThreadNormCall(t)
        \/ ThreadNormHit(t)
        \/ ThreadNormMiss(t)
        \/ ThreadNormReturn(t)
        \/ ThreadNormNext(t)

SpecNormThreads == InitNormThreads /\ [][NextNormThreads]_vars

\* ------------------------------------------------------------------------
\* The views that call get_engine() and the views on DiseasePrediction,
\* served by request threads
\* ------------------------------------------------------------------------
\* the result of the legacy engine when it has no model
LEGACY_COMMON_COLD ==
    [raised |-> FALSE, disease |-> "Common Cold", confidence |-> 750,
     medicines |-> <<"R","e","s","t",","," ","f","l","u","i","d","s",","," ",
                     "p","a","i","n"," ","r","e","l","i","e","v","e","r","s",
                     " ","i","f"," ","n","e","e","d","e","d">>,
     diet |-> <<"P","l","e","n","t","y"," ","o","f"," ","f","l","u","i","d",
                "s",","," ","l","i","g","h","t"," ","f","o","o","d","s",",",
                " ","v","i","t","a","m","i","n"," ","C">>]

\* DiseasePredictionEngine() or predict_disease raised
LEGACY_RAISED ==
    [raised |-> TRUE, disease |-> "", confidence |-> 0,
     medicines |-> <<>>, diet |-> <<>>]

\* _load_dataset: pd.read_csv of data/dataset_with_recommendations.csv, the
\* only name the legacy engine knows; a failed read is swallowed and leaves
\* self.df = None (loaded FALSE)
Legacy_load_dataset(file, df_) ==
    IF file.state = "ok" /\ file.name = LEGACY_NAME
    THEN [loaded |-> TRUE,
          df |-> symptom_columns(file, df_, LEGACY_SYM_COL_PREFIX)]
    ELSE [loaded |-> FALSE, df |-> <<>>]

\* _prepare_training_data: the rows with a cell in a 'Symptom_' column that
\* is not missing, not blank and not 'nan'
Legacy_samples(df_) ==
    {i \in 1..Len(df_) :
        \E c \in 1..Len(df_[i].cells) :
            /\ ~df_[i].cells[c].nan
            /\ py_strip(df_[i].cells[c].s) \notin {<<>>, <<"n","a","n">>}}

\* _prepare_data: what one cell that is not missing adds to all_symptoms:
\* its stripped pieces when it holds a comma, its stripped text otherwise
Legacy_cell_symptoms(s) ==
    IF py_in(",", s)
    THEN {py_strip(py_split(s, ",")[k]) : k \in 1..Len(py_split(s, ","))}
    ELSE {py_strip(s)}

\* _prepare_data: all_symptoms over the 'Symptom_' columns, dropna() applied
Legacy_all_symptoms(df_) ==
    UNION {UNION {Legacy_cell_symptoms(df_[i].cells[c].s) :
                    c \in {k \in 1..Len(df_[i].cells) : ~df_[i].cells[k].nan}} :
             i \in 1..Len(df_)}

\* len(self.symptoms_list), the length of every feature vector: one entry
\* for each item of all_symptoms that is not empty and not 'nan'
Legacy_features(df_) ==
    Cardinality({s \in Legacy_all_symptoms(df_) :
                    s # <<>> /\ s # <<"n","a","n">>})

\* _get_recommendations: the texts of the first row of the disease
Legacy_first_row(df_, disease) ==
    df_[CHOOSE k \in 1..Len(df_) :
           /\ df_[k].disease = disease
           /\ \A j \in 1..(k - 1) : df_[j].disease # disease]

\* DiseasePredictionEngine().predict_disease(symptoms) for a non-empty list,
\* on the DataFrame l that _load_dataset left: without a DataFrame, or when
\* no row has a symptom (model is None), predict_disease answers 'Common
\* Cold'; train_test_split(test_size=0.2) raises on one sample, and
\* RandomForestClassifier.fit raises ValueError on samples of 0 features
\* (the rows are samples by cells such as ',' that leave no symptom), which
\* DiseasePredictionEngine() lets through; otherwise the forest names a
\* disease of the samples.  No item of symptoms makes it raise:
\* _normalize_symptom passes every item through str().
Legacy_predict(l) ==
    IF ~l.loaded THEN {LEGACY_COMMON_COLD}
    ELSE IF Legacy_samples(l.df) = {} THEN {LEGACY_COMMON_COLD}
    ELSE IF Cardinality(Legacy_samples(l.df))
              - ((Cardinality(Legacy_samples(l.df)) + 4) \div 5) = 0
    THEN {LEGACY_RAISED}
    ELSE IF Legacy_features(l.df) = 0 THEN {LEGACY_RAISED}
    ELSE {[raised |-> FALSE, disease |-> l.df[i].disease,
           confidence |-> py_round1(k, ProbaUnits),
           medicines |-> py_str(Legacy_first_row(l.df, l.df[i].disease).medicine),
           diet |-> py_str(Legacy_first_row(l.df, l.df[i].disease).diet)] :
             i \in Legacy_samples(l.df), k \in 1..ProbaUnits}

\* legacy = DiseasePredictionEngine(); legacy.predict_disease(symptoms)
Legacy_predict_disease(file, df_) == Legacy_predict(Legacy_load_dataset(file, df_))

\* the bodies of the requests: bytes that are not UTF-8 text (json.loads
\* raises UnicodeDecodeError, which is not a JSONDecodeError), text that is
\* not JSON (JSONDecodeError), a JSON list, an object without
\* symptoms, and objects with a list under 'symptoms'.  symptoms are the
\* items of the list that are str; non_str tells what follows them as the
\* last item: "none", "falsy" (0, null, false: not a str and not true),
\* "nan" (NaN, which json.loads reads as float('nan'): true, and not equal
\* to itself) or "truthy" (any other item that is not a str and is true: a
\* number other than 0, true, Infinity, a list or an object that is not
\* empty)
Body(body_kind, symptoms, non_str) ==
    [kind |-> body_kind, symptoms |-> symptoms, non_str |-> non_str]

Bodies ==
    {Body("not_utf8", <<>>, "none"),
     Body("invalid_json", <<>>, "none"),
     Body("not_object", <<>>, "none"),
     Body("no_symptoms", <<>>, "none"),
     Body("list", <<cough>>, "none"),
     Body("list", <<<<"x","y","z">>>>, "none"),
     Body("list", <<>>, "none"),
     Body("list", <<>>, "falsy"),
     Body("list", <<<<"x","y","z">>>>, "nan"),
     Body("list", <<<<"x","y","z">>>>, "truthy")}

\* 'if not symptoms' of both views: no 'symptoms' in the object (data.get
\* answers []), or an empty list under it
not_symptoms(body) ==
    \/ body.kind = "no_symptoms"
    \/ body.kind = "list" /\ body.symptoms = <<>> /\ body.non_str = "none"

\* no body, or one the view does not read
NoBody == Body("none", <<>>, "none")

\* the list as RandomForestDatasetEngine sees it up to the item that makes
\* _norm raise: the test 'not s or s != s' answers '' for an item
\* that is not true and for NaN, as it does for the empty str, before the
\* cache is looked at.  (In _best_recommendations NaN passes 'if s' and puts
\* '' into input_norm; no row set holds '', so the row chosen is the same.)
rf_items(body) ==
    IF body.non_str \in {"falsy", "nan"} THEN Append(body.symptoms, <<>>)
    ELSE body.symptoms

\* no result in the response
NoResult ==
    [status |-> "", predicted_disease |-> "", confidence |-> 0,
     medicine_recommendation |-> <<>>, diet_recommendation |-> <<>>]

\* the part of a result that both views send
Sent(result) ==
    [status |-> result.status,
     predicted_disease |-> result.predicted_disease,
     confidence |-> result.confidence,
     medicine_recommendation |-> result.medicine_recommendation,
     diet_recommendation |-> result.diet_recommendation]

\* which engines a request consulted: for each "none", "raised" or
\* "returned", and what the RF engine returned
NoChain == [rf |-> "none", legacy |-> "none", rf_result |-> NoResult]

\* JsonResponse({'error': ...}, status=code)
JsonError(view, code, req) ==
    [view |-> view, code |-> code, json |-> TRUE, raised |-> FALSE,
     error |-> TRUE, result |-> NoResult, prediction_id |-> 0, request |-> req,
     chain |-> NoChain, message |-> ""]

\* JsonResponse(<result>), status 200
JsonOk(view, result, id, req) ==
    [view |-> view, code |-> 200, json |-> TRUE, raised |-> FALSE,
     error |-> FALSE, result |-> result, prediction_id |-> id, request |-> req,
     chain |-> NoChain, message |-> ""]

\* login_required: the redirect to the login page; redirect('home')
Redirect(view, req, to) ==
    [view |-> view, code |-> 302, json |-> FALSE, raised |-> FALSE,
     error |-> FALSE, result |-> NoResult, prediction_id |-> 0, request |-> req,
     chain |-> NoChain, message |-> to]

\* the exception leaves the view
on_exception_propagates(view, req) ==
    [view |-> view, code |-> 500, json |-> FALSE, raised |-> TRUE,
     error |-> FALSE, result |-> NoResult, prediction_id |-> 0, request |-> req,
     chain |-> NoChain, message |-> ""]

\* except Exception as e: return JsonResponse({'error': str(e)}, status=500)
on_exception(view, req) == JsonError(view, 500, req)

\* an exception leaves a view that has no handler around it
Propagated(view, req) == on_exception_propagates(view, req)

\* JsonResponse({'symptoms': symptoms}) and the page of disease_prediction:
\* the symptoms offered, and the ids of the predictions listed
SymptomsResponse(view, req, json, available_symptoms, recent) ==
    [view |-> view, code |-> 200, json |-> json, raised |-> FALSE,
     error |-> FALSE, result |-> NoResult, prediction_id |-> 0, request |-> req,
     chain |-> NoChain, message |-> "",
     available_symptoms |-> available_symptoms, recent_predictions |-> recent]

\* JsonResponse({'success': True})
SuccessResponse(view, req) ==
    [view |-> view, code |-> 200, json |-> TRUE, raised |-> FALSE,
     error |-> FALSE, result |-> NoResult, prediction_id |-> 0, request |-> req,
     chain |-> NoChain, message |-> "success"]

\* JsonResponse({'success': True, 'deleted_count': n})
DeletedResponse(view, req, n) ==
    [view |-> view, code |-> 200, json |-> TRUE, raised |-> FALSE,
     error |-> FALSE, result |-> NoResult, prediction_id |-> 0, request |-> req,
     chain |-> NoChain, message |-> "success", deleted_count |-> n]

\* the engine k after predict left cache in it
Cached(engines, k, cache) ==
    [engines EXCEPT ![k] = [@ EXCEPT !._normalize_cache = cache]]

\* rf_engine.predict(symptoms) on the engine eng: the result and the cache it
\* leaves, or raised.  _vectorize normalizes the items in order, so the str
\* items before the one that is not a str are in the cache when _norm
\* raises on it ('s in self._normalize_cache' raises TypeError on a list or
\* an object, s.strip() AttributeError on a number or true); an item that is
\* not true, and NaN, make _norm return '' and nothing is raised
engine_predict(df_, body, eng) ==
    IF body.non_str = "truthy"
    THEN {[raised |-> TRUE, result |-> NoResult,
           cache |-> RF_vectorize(eng, body.symptoms).cache]}
    ELSE UNION {
           {Bind(RF_predict(df_, eng, rf_items(body), proba, sorted),
                 LAMBDA r : [raised |-> FALSE, result |-> Sent(r.result),
                             cache |-> r.cache]) :
              sorted \in np_argsort(proba)} :
           proba \in RF_probas(eng, rf_items(body))}

\* get_engine() or predict raised
RF_RAISED == [raised |-> TRUE, result |-> NoResult]

\* the fallback chain of the patients view: the legacy engine's answer under
\* the status 'legacy_fallback'
legacy_result(l) ==
    [status |-> "legacy_fallback", predicted_disease |-> l.disease,
     confidence |-> l.confidence, medicine_recommendation |-> l.medicines,
     diet_recommendation |-> l.diet]

\* the chain with the legacy engine consulted on every request and preferred
fallback_chain_legacy_first(o, legacy) ==
    {[rf |-> IF o.raised THEN "raised" ELSE "returned",
      legacy |-> IF l.raised THEN "raised" ELSE "returned",
      rf_result |-> o.result,
      failed |-> (o.raised /\ l.raised),
      result |-> IF l.raised THEN o.result ELSE legacy_result(l)] : l \in legacy}

\* patients: the try block around the RF engine and its except branch: o is
\* what get_engine() and predict did, legacy what DiseasePredictionEngine()
\* and predict_disease may do; failed is the return of 'All engines failed'
fallback_chain(o, legacy) ==
    IF ~o.raised
    THEN {[rf |-> "returned", legacy |-> "none", rf_result |-> o.result,
           failed |-> FALSE, result |-> o.result]}
    ELSE {[rf |-> "raised",
           legacy |-> IF l.raised THEN "raised" ELSE "returned",
           rf_result |-> NoResult,
           failed |-> l.raised,
           result |-> IF l.raised THEN NoResult ELSE legacy_result(l)] :
             l \in legacy}

\* the engines a request went through
chain_of(c) == [rf |-> c.rf, legacy |-> c.legacy, rf_result |-> c.rf_result]

\* the engines a response went through
Via(resp, c) == [resp EXCEPT !.chain = c]

\* ', '.join(symptoms) for a list of str
RECURSIVE py_join(_, _)
py_join(sep, parts) ==
    IF parts = <<>> THEN <<>>
    ELSE IF Len(parts) = 1 THEN parts[1]
    ELSE parts[1] \o sep \o py_join(sep, Tail(parts))

\* the DiseasePrediction row of a request, under the id the database gives it
prediction_row(id, req, body, result) ==
    [id |-> id, patient |-> req.user,
     symptoms |-> py_join(<<",", " ">>, body.symptoms),
     predicted_disease |-> result.predicted_disease,
     confidence_score |-> result.confidence,
     recommended_medicines |-> result.medicine_recommendation,
     recommended_diet |-> result.diet_recommendation]

\* the row saved before the statements that may raise
patients_persist_early(req, body, c, result, seq, save_ok) ==
    IF body.non_str # "none" \/ ~save_ok
    THEN [response |-> Via(on_exception("patients", req), c),
          saved |-> {prediction_row(seq + 1, req, Body("list", <<>>, "none"),
                                    result)}]
    ELSE [response |-> Via(JsonOk("patients", result, seq + 1, req), c),
          saved |-> {prediction_row(seq + 1, req, body, result)}]

\* patients: the statements after the engines: DiseasePrediction(...),
\* prediction.save() and the 200 response with prediction.id.  ', '.join(
\* symptoms) raises TypeError on an item that is not a str, save() raises
\* when the database does; seq is the last id the table gave out
patients_persist(req, body, c, result, seq, save_ok) ==
    IF body.non_str # "none" \/ ~save_ok
    THEN [response |-> Via(on_exception("patients", req), c), saved |-> {}]
    ELSE [response |-> Via(JsonOk("patients", result, seq + 1, req), c),
          saved |-> {prediction_row(seq + 1, req, body, result)}]

\* JsonResponse({'error': f'All engines failed: {inner}'}, status=500)
all_engines_failed(req, c) ==
    [Via(JsonError("patients", 500, req), c)
        EXCEPT !.message = "All engines failed"]

\* the users: ann and bob are in the group 'Patients', dan is not
Patients == {"ann", "bob"}

\* a request: method, request.user (AnonymousUser when not logged in) and
\* the kind of its body
Request(method, user, body) ==
    [method |-> method, user |-> user,
     authenticated |-> (user # "AnonymousUser"),
     in_group |-> (user \in Patients), body |-> body.kind]

\* a request thread between two requests
NoRequest == Request("", "AnonymousUser", NoBody)

\* the locals of a request thread inside a view: inst is the engine it
\* constructed and ret the one get_engine() returned (0: none), chain and
\* result what the engines of the patients view did, deleted_count the count
\* clear_all_predictions took, prediction the id of the row delete_prediction
\* loaded (0: none)
ViewFrame(pc, view, req, body) ==
    [pc |-> pc, view |-> view, req |-> req, body |-> body, inst |-> 0,
     ret |-> 0, chain |-> NoChain, result |-> NoResult, deleted_count |-> 0,
     prediction |-> 0]

IdleView == ViewFrame("idle", "", NoRequest, NoBody)

\* DiseasePrediction.objects.filter(patient__user=user)
predictions_of(rows, user) == {r \in rows : r.patient = user}

\* the ids of rows, newest first
RECURSIVE newest_first(_)
newest_first(rows) ==
    IF rows = {} THEN <<>>
    ELSE Bind(CHOOSE r \in rows : \A q \in rows : q.id <= r.id, LAMBDA r :
              <<r.id>> \o newest_first(rows \ {r}))

\* [:5]
first5(s) == SubSeq(s, 1, IF Len(s) < 5 THEN Len(s) ELSE 5)

\* the symptoms disease_prediction offers when get_engine() raised
BASIC_SYMPTOMS ==
    <<<<"F","e","v","e","r">>, <<"C","o","u","g","h">>,
      <<"H","e","a","d","a","c","h","e">>, <<"F","a","t","i","g","u","e">>,
      <<"N","a","u","s","e","a">>>>

\* the thread goes on inside the view, or the view returns resp
GoOn(frame) == [answered |-> FALSE, frame |-> frame, response |-> <<>>]
Reply(resp) == [answered |-> TRUE, frame |-> IdleView, response |-> resp]

\* what an engine view does once get_engine() or predict raised (o is
\* RF_RAISED) or predict returned (o carries its result): the patients view
\* walks the fallback chain and goes on to persist, ml_prediction answers,
\* get_symptoms_api has no handler, disease_prediction falls back to its
\* basic symptoms
after_engine(f, o, file, df_, rows) ==
    IF f.view = "patients"
    THEN {IF c.failed
          THEN Reply(all_engines_failed(f.req, chain_of(c)))
          ELSE GoOn([f EXCEPT !.pc = "persist", !.chain = chain_of(c),
                              !.result = c.result]) :
            c \in fallback_chain(o, Legacy_predict_disease(file, df_))}
    ELSE IF f.view = "ml_prediction"
    THEN {IF o.raised THEN Reply(on_exception("ml_prediction", f.req))
          ELSE Reply(JsonOk("ml_prediction", o.result, 0, f.req))}
    ELSE IF f.view = "get_symptoms_api"
    THEN {Reply(Propagated("get_symptoms_api", f.req))}
    ELSE {Reply(SymptomsResponse("disease_prediction", f.req, FALSE,
                     BASIC_SYMPTOMS,
                     first5(newest_first(predictions_of(rows, f.req.user)))))}

\* what a view that only lists the symptoms does with the engine eng
after_get_engine(f, eng, rows) ==
    IF f.view = "get_symptoms_api"
    THEN Reply(SymptomsResponse("get_symptoms_api", f.req, TRUE,
                    RF_get_available_symptoms(eng), <<>>))
    ELSE IF f.view = "disease_prediction"
    THEN Reply(SymptomsResponse("disease_prediction", f.req, FALSE,
                    RF_get_available_symptoms(eng),
                    first5(newest_first(predictions_of(rows, f.req.user)))))
    ELSE GoOn([f EXCEPT !.pc = "predict"])

\* patients.views.predict_disease_api up to get_engine(): the answer of a
\* guard, or the thread goes on with the list of symptoms
patients_predict_disease_api(req, body) ==
    IF ~req.authenticated THEN Reply(Redirect("patients", req, "login"))
    ELSE IF req.method # "POST" THEN Reply(JsonError("patients", 405, req))
    ELSE IF ~req.in_group THEN Reply(JsonError("patients", 403, req))
    ELSE IF body.kind = "invalid_json"
    THEN Reply(JsonError("patients", 400, req))
    ELSE IF body.kind \in {"not_utf8", "not_object"}
    THEN Reply(on_exception("patients", req))
    ELSE IF not_symptoms(body)
    THEN Reply(JsonError("patients", 400, req))
    ELSE GoOn(ViewFrame("get_engine", "patients", req, body))

\* ml_prediction.views.predict_disease_api up to get_engine()
ml_predict_disease_api(req, body) ==
    IF ~req.authenticated THEN Reply(Redirect("ml_prediction", req, "login"))
    ELSE IF req.method # "POST"
    THEN Reply(JsonError("ml_prediction", 405, req))
    ELSE IF body.kind \in {"not_utf8", "invalid_json", "not_object"}
    THEN Reply(on_exception("ml_prediction", req))
    ELSE IF not_symptoms(body)
    THEN Reply(JsonError("ml_prediction", 400, req))
    ELSE GoOn(ViewFrame("get_engine", "ml_prediction", req, body))

\* ml_prediction.views.get_symptoms_api up to get_engine()
get_symptoms_api(req) ==
    IF ~req.authenticated
    THEN Reply(Redirect("get_symptoms_api", req, "login"))
    ELSE GoOn(ViewFrame("get_engine", "get_symptoms_api", req, NoBody))

\* patients.views.disease_prediction up to get_engine()
disease_prediction(req) ==
    IF ~req.authenticated
    THEN Reply(Redirect("disease_prediction", req, "login"))
    ELSE IF ~req.in_group
    THEN Reply(Redirect("disease_prediction", req, "home"))
    ELSE GoOn(ViewFrame("get_engine", "disease_prediction", req, NoBody))

\* patients.views.clear_all_predictions up to the delete: the guards and
\* DiseasePrediction.objects.filter(patient=profile).count()
clear_all_predictions(req, rows) ==
    IF ~req.authenticated
    THEN Reply(Redirect("clear_all_predictions", req, "login"))
    ELSE IF req.method # "POST"
    THEN Reply(JsonError("clear_all_predictions", 405, req))
    ELSE IF ~req.in_group
    THEN Reply(JsonError("clear_all_predictions", 403, req))
    ELSE GoOn([ViewFrame("delete", "clear_all_predictions", req, NoBody)
                  EXCEPT !.deleted_count =
                      Cardinality(predictions_of(rows, req.user))])

\* ml_prediction.views.delete_prediction up to prediction.delete(): the
\* guards, json.loads and DiseasePrediction.objects.get(id=prediction_id,
\* patient__user=request.user).  prediction_id is the value under
\* 'prediction_id' (0: none); the thread goes on with the row it loaded
delete_prediction(req, body, prediction_id, rows) ==
    IF ~req.authenticated
    THEN Reply(Redirect("delete_prediction", req, "login"))
    ELSE IF req.method # "POST"
    THEN Reply(JsonError("delete_prediction", 405, req))
    ELSE IF body.kind \in {"not_utf8", "invalid_json", "not_object"}
    THEN Reply(JsonError("delete_prediction", 500, req))
    ELSE IF prediction_id = 0
    THEN Reply(JsonError("delete_prediction", 400, req))
    ELSE IF \A r \in predictions_of(rows, req.user) : r.id # prediction_id
    THEN Reply(JsonError("delete_prediction", 404, req))
    ELSE GoOn([ViewFrame("delete_row", "delete_prediction", req, body)
                  EXCEPT !.prediction = prediction_id])

\* ml_prediction.views.delete_all_predictions
delete_all_predictions(req, rows) ==
    IF ~req.authenticated
    THEN [response |-> Redirect("delete_all_predictions", req, "login"),
          rows |-> rows]
    ELSE IF req.method # "POST"
    THEN [response |-> JsonError("delete_all_predictions", 405, req),
          rows |-> rows]
    ELSE [response |-> DeletedResponse("delete_all_predictions", req,
                           Cardinality(predictions_of(rows, req.user))),
          rows |-> rows \ predictions_of(rows, req.user)]

\* the request threads of the views
ViewThreads == 2

\* the ids the table gives out at most: while the views on the engines run,
\* and while the views on the table run
MaxSaved == 1
MaxPredictions == 2

Methods == {"GET", "POST"}

\* a request that a guard answers before the body is read
Bare(method, user) == <<Request(method, user, NoBody), NoBody>>

\* the requests of the patients view: every method and user, and the POSTs
\* of ann with every body
PatientsRequests ==
    {Bare(m, u) : m \in Methods, u \in {"dan", "AnonymousUser"}}
    \cup {Bare("GET", "ann")}
    \cup {<<Request("POST", "ann", b), b>> : b \in Bodies}

\* the requests of the ml_prediction view, which asks for no group
MlRequests ==
    {Bare(m, "AnonymousUser") : m \in Methods}
    \cup {Bare("GET", "dan")}
    \cup {<<Request("POST", "dan", b), b>> : b \in Bodies}

\* the requests that the second thread serves next to the first
ConcurrentRequests ==
    {<<Request("POST", "dan", b), b>> :
        b \in {Body("list", <<<<"x","y","z">>>>, "none")}}

\* the requests of the views that list the symptoms
PageRequests ==
    {Bare("GET", u) : u \in {"ann", "dan", "AnonymousUser"}}

\* the requests of the patients view while the views on the table run: both
\* patients, a list that is saved and one that is not, and the bodies that
\* are answered before the engines: not UTF-8, not JSON, no symptoms, an
\* empty list
SavingRequests ==
    {Bare("POST", "dan"), Bare("GET", "ann")}
    \cup {<<Request("POST", u, b), b>> :
             u \in Patients,
             b \in {Body("list", <<cough>>, "none"),
                    Body("list", <<>>, "falsy")}}
    \cup {<<Request("POST", "ann", b), b>> :
             b \in {Body("not_utf8", <<>>, "none"),
                    Body("invalid_json", <<>>, "none"),
                    Body("no_symptoms", <<>>, "none"),
                    Body("list", <<>>, "none")}}

\* the requests of the views that delete predictions
PredictionDeleteRequests ==
    {Bare(m, u) : m \in Methods, u \in {"ann", "AnonymousUser"}}
    \cup {Bare("POST", u) : u \in {"bob", "dan"}}

\* a dataset with two samples of one disease
ViewTable == <<RowFlu, RowFever>>

\* the datasets of the served process: two samples, one sample, no row
ServedTables == {ViewTable, <<RowFlu>>, <<>>}

\* the data directories of the served process
ServedFiles ==
    {<<MISSING_FILE, <<>>>>, <<UNPARSEABLE_FILE, <<>>>>,
     <<LEGACY_FILE, ViewTable>>, <<LEGACY_FILE, <<RowFlu>>>>,
     <<LEGACY_FILE, <<RowBlank, RowBlank>>>>}
    \cup {<<RF_FILE, table>> : table \in ServedTables}

\* the process with the request threads waiting
ViewsIdle ==
    /\ kind = "rf"
    /\ min_threshold = <<12, 100>>
    /\ phase = "new"
    /\ ov = OV_None
    /\ rf = RF_None
    /\ call = NoCall
    /\ engine_singleton = 0
    /\ instances = <<>>
    /\ threads = [t \in 1..ViewThreads |-> IdleView]
    /\ response = [view |-> "none"]
    /\ db = NoPredictions
    /\ ClinicIdle

InitView ==
    /\ \E served \in ServedFiles : dataset = served[1] /\ df = served[2]
    /\ ViewsIdle

\* the views on the table, on a dataset the RF engine reads and on none
InitPredictions ==
    /\ \E served \in {<<RF_FILE, ViewTable>>, <<MISSING_FILE, <<>>>>} :
           dataset = served[1] /\ df = served[2]
    /\ ViewsIdle

\* what a request leaves alone
request_frame ==
    <<df, kind, min_threshold, phase, ov, rf, call, dataset, clinic>>

\* thread t takes the step out
Step(t, out) ==
    /\ threads' = [threads EXCEPT ![t] = out.frame]
    /\ response' = IF out.answered THEN out.response ELSE response

\* thread t enters a view that calls get_engine(): the guards, then the test
\* 'if _engine_singleton is None' of get_engine()
Enter(t, out) ==
    /\ threads[t].pc = "idle"
    /\ IF out.answered THEN Step(t, out)
       ELSE Step(t, GoOn([out.frame EXCEPT !.pc =
                IF engine_singleton = 0 THEN "construct" ELSE "return"]))
    /\ UNCHANGED <<engine_singleton, instances, db>>
    /\ UNCHANGED request_frame

\* the rows that requests in flight may still save
in_flight == Cardinality({t \in 1..ViewThreads : threads[t].view = "patients"})

\* a request to patients.views.predict_disease_api arrives, one of reqs; one
\* that gets past the guards arrives only while the table has given out
\* fewer than max_saved ids
PatientsPredictDiseaseApi(t, reqs, max_saved) ==
    \E r \in reqs :
    \E out \in {patients_predict_disease_api(r[1], r[2])} :
        /\ out.answered \/ db.seq + in_flight < max_saved
        /\ Enter(t, out)

\* a request to ml_prediction.views.predict_disease_api arrives
MlPredictDiseaseApi(t, reqs) ==
    /\ threads[t].pc = "idle"
    /\ \E r \in reqs : Enter(t, ml_predict_disease_api(r[1], r[2]))

\* a request to ml_prediction.views.get_symptoms_api arrives
GetSymptomsApi(t, reqs) ==
    /\ threads[t].pc = "idle"
    /\ \E r \in reqs : Enter(t, get_symptoms_api(r[1]))

\* a request to patients.views.disease_prediction arrives
DiseasePredictionPage(t, reqs) ==
    /\ threads[t].pc = "idle"
    /\ \E r \in reqs : Enter(t, disease_prediction(r[1]))

\* RandomForestDatasetEngine() returns a new engine
ViewConstruct(t) ==
    /\ threads[t].pc = "construct"
    /\ dataset.state = "ok"
    /\ \E e \in RF_engines(RF_df(dataset, df), RF_prepare(RF_df(dataset, df))) :
           instances' = Append(instances, e)
    /\ threads' = [threads EXCEPT ![t].pc = "assign",
                                  ![t].inst = Len(instances) + 1]
    /\ UNCHANGED <<engine_singleton, response, db>>
    /\ UNCHANGED request_frame

\* RandomForestDatasetEngine() raises: no dataset file (FileNotFoundError),
\* a file that cannot be parsed, or no row to train on (ValueError)
ViewConstructRaises(t) ==
    /\ threads[t].pc = "construct"
    /\ \/ dataset.state # "ok"
       \/ \E m \in RF_train(RF_df(dataset, df),
                            RF_prepare(RF_df(dataset, df))) : ~m.ok
    /\ \E out \in after_engine(threads[t], RF_RAISED, dataset, df, db.rows) :
           Step(t, out)
    /\ UNCHANGED <<engine_singleton, instances, db>>
    /\ UNCHANGED request_frame

\* _engine_singleton = <the new engine>
ViewAssign(t) ==
    /\ threads[t].pc = "assign"
    /\ engine_singleton' = threads[t].inst
    /\ threads' = [threads EXCEPT ![t].pc = "return"]
    /\ UNCHANGED <<instances, response, db>>
    /\ UNCHANGED request_frame

\* return _engine_singleton, and get_available_symptoms() in the views that
\* list the symptoms
ViewReturn(t) ==
    /\ threads[t].pc = "return"
    /\ Step(t, after_get_engine([threads[t] EXCEPT !.ret = engine_singleton],
                                instances[engine_singleton], db.rows))
    /\ UNCHANGED <<engine_singleton, instances, db>>
    /\ UNCHANGED request_frame

\* rf_engine.predict(symptoms) on the engine the thread holds, and what the
\* view does with the outcome up to its next statement on shared state
ViewPredict(t) ==
    /\ threads[t].pc = "predict"
    /\ \E o \in engine_predict(RF_df(dataset, df), threads[t].body,
                               instances[threads[t].ret]) :
         /\ instances' = Cached(instances, threads[t].ret, o.cache)
         /\ \E out \in after_engine(threads[t],
                           [raised |-> o.raised, result |-> o.result],
                           dataset, df, db.rows) :
                Step(t, out)
    /\ UNCHANGED <<engine_singleton, db>>
    /\ UNCHANGED request_frame

\* the table after a view saved the rows saved
Saved(saved) ==
    db' = [seq |-> db.seq + Cardinality(saved), rows |-> db.rows \cup saved]

\* patients: DiseasePrediction(...).save() and the response
ViewPersist(t) ==
    /\ threads[t].pc = "persist"
    /\ \E save_ok \in BOOLEAN :
       \E p \in {patients_persist(threads[t].req, threads[t].body,
                                  threads[t].chain, threads[t].result,
                                  db.seq, save_ok)} :
         /\ Saved(p.saved)
         /\ Step(t, Reply(p.response))
    /\ UNCHANGED <<engine_singleton, instances>>
    /\ UNCHANGED request_frame

\* a request to patients.views.clear_all_predictions arrives and counts
ClearAllPredictions(t, reqs) ==
    /\ threads[t].pc = "idle"
    /\ \E r \in reqs : Step(t, clear_all_predictions(r[1], db.rows))
    /\ UNCHANGED <<engine_singleton, instances, db>>
    /\ UNCHANGED request_frame

\* DiseasePrediction.objects.filter(patient=profile).delete() and the
\* response with the count taken before
ClearAllDelete(t) ==
    /\ threads[t].pc = "delete"
    /\ db' = [db EXCEPT !.rows = @ \ predictions_of(@, threads[t].req.user)]
    /\ Step(t, Reply(DeletedResponse("clear_all_predictions", threads[t].req,
                                      threads[t].deleted_count)))
    /\ UNCHANGED <<engine_singleton, instances>>
    /\ UNCHANGED request_frame

\* the bodies of delete_prediction: not JSON, or an object and the id it names
DeleteBodies ==
    {<<Body("invalid_json", <<>>, "none"), 0>>}
    \cup {<<Body("prediction_id", <<>>, "none"), k>> : k \in 0..MaxSaved}

\* a request to ml_prediction.views.delete_prediction arrives and loads the
\* row
DeletePrediction(t, reqs) ==
    /\ threads[t].pc = "idle"
    /\ \E r \in reqs : \E b \in DeleteBodies :
         Step(t, delete_prediction(Request(r[1].method, r[1].user, b[1]), b[1],
                                   b[2], db.rows))
    /\ UNCHANGED <<engine_singleton, instances, db>>
    /\ UNCHANGED request_frame

\* prediction.delete() and the response: DELETE ... WHERE id = <the id of
\* the loaded row>, which removes nothing and raises nothing when another
\* request removed the row since
DeletePredictionDelete(t) ==
    /\ threads[t].pc = "delete_row"
    /\ db' = [db EXCEPT !.rows = {r \in @ : r.id # threads[t].prediction}]
    /\ Step(t, Reply(SuccessResponse("delete_prediction", threads[t].req)))
    /\ UNCHANGED <<engine_singleton, instances>>
    /\ UNCHANGED request_frame

\* a request to ml_prediction.views.delete_all_predictions
DeleteAllPredictions(t, reqs) ==
    /\ threads[t].pc = "idle"
    /\ \E r \in reqs :
       \E d \in {delete_all_predictions(r[1], db.rows)} :
         /\ db' = [db EXCEPT !.rows = d.rows]
         /\ Step(t, Reply(d.response))
    /\ UNCHANGED <<engine_singleton, instances>>
    /\ UNCHANGED request_frame

\* the steps of a thread inside get_engine() and the predict views
EngineSteps(t) ==
    \/ ViewConstruct(t)
    \/ ViewConstructRaises(t)
    \/ ViewAssign(t)
    \/ ViewReturn(t)
    \/ ViewPredict(t)
    \/ ViewPersist(t)

\* the views that call get_engine(): the first thread serves every request,
\* the second a prediction next to it
NextView ==
    \/ PatientsPredictDiseaseApi(1, PatientsRequests, MaxSaved)
    \/ GetSymptomsApi(1, PageRequests)
    \/ DiseasePredictionPage(1, PageRequests)
    \/ MlPredictDiseaseApi(1, MlRequests)
    \/ MlPredictDiseaseApi(2, ConcurrentRequests)
    \/ \E t \in 1..ViewThreads : EngineSteps(t)

SpecView == InitView /\ [][NextView]_vars

\* the views on the table DiseasePrediction, in both threads
NextPredictions ==
    \E t \in 1..ViewThreads :
        \/ PatientsPredictDiseaseApi(t, SavingRequests, MaxPredictions)
        \/ EngineSteps(t)
        \/ ClearAllPredictions(t, PredictionDeleteRequests)
        \/ ClearAllDelete(t)
        \/ DeletePrediction(t, PredictionDeleteRequests)
        \/ DeletePredictionDelete(t)
        \/ DeleteAllPredictions(t, PredictionDeleteRequests)

SpecPredictions == InitPredictions /\ [][NextPredictions]_vars

\* ------------------------------------------------------------------------
\* Appointments and chat: doctors/views.py, patients/views.py
\* ------------------------------------------------------------------------
\* the users in the group 'Doctors' (Patients are those in the group 'Patients')
Doctors == {"dan", "eve"}

\* request.user of a request
Everyone == Patients \cup Doctors \cup {"AnonymousUser"}

\* Appointment.STATUS_CHOICES
STATUS_CHOICES == {"pending", "accepted", "rejected", "completed", "cancelled"}

\* the appointments and messages the tables hold at most
MaxAppointments == 2
MaxMessages == 1

\* the requests to the appointment and chat views in flight at the same time
AppointmentThreads == 2

\* an Appointment row as book_appointment saves it (status default 'pending',
\* doctor_notes blank) or as the admin site leaves it after cancelling
Appointment(p, d, s) ==
    [patient |-> p, doctor |-> d, status |-> s, doctor_notes |-> ""]

\* appointment tables: the first appointment of ann with dan, the second
\* (if any) of ann with dan or of bob with eve, each in one of the statuses
TablesIn(statuses) ==
    {<<Appointment("ann", "dan", s)>> : s \in statuses}
    \cup {<<Appointment("ann", "dan", s), Appointment(pd[1], pd[2], s2)>> :
            s \in statuses, s2 \in statuses,
            pd \in {<<"ann", "dan">>, <<"bob", "eve">>}}

\* the tables the appointment views start from: nothing booked yet, or one
\* appointment the admin site cancelled
AppointmentTables == {<<>>, <<Appointment("bob", "eve", "cancelled")>>}

\* the tables the chat views start from
ChatTables == TablesIn(STATUS_CHOICES)

\* what a view of the doctors or patients app answered: flash is the level of
\* the message left for the next page, raised whether an exception left the
\* view, request what it was called with
Answer(view, code, flash, req) ==
    [view |-> view, code |-> code, flash |-> flash, raised |-> FALSE,
     request |-> req]

\* an exception of the view reaches the framework
Raised(view, req) ==
    [view |-> view, code |-> 500, flash |-> "", raised |-> TRUE,
     request |-> req]

\* a request slot nobody uses
IdleRequest == [pc |-> "idle"]

\* a view that answered: its slot is free again
Stop(resp) == [frame |-> IdleRequest, response |-> resp]

\* a view that goes on to its write with what it holds in its locals
Go(frame) == [frame |-> frame, response |-> [view |-> "none"]]

\* the locals of a doctor view before appointment.save(): appointment is the
\* object get_object_or_404 loaded, with the fields the view assigned since
Saving(view, req, appointment) ==
    [pc |-> "save", view |-> view, req |-> req, appointment |-> appointment]

\* get_object_or_404(Appointment, id=appointment_id, doctor=profile)
get_appointment(rows, req) ==
    req.id \in DOMAIN rows /\ rows[req.id].doctor = req.user

\* the guards the three appointment views share: login_required, the group
\* test and get_object_or_404; the set holds the answer if a guard stops
guards(view, rows, req) ==
    IF req.user = "AnonymousUser"
    THEN {Answer(view, 302, "login", req)}
    ELSE IF req.user \notin Doctors
    THEN {Answer(view, 302, "error", req)}
    ELSE IF ~get_appointment(rows, req)
    THEN {Answer(view, 404, "", req)}
    ELSE {}

\* doctors.views.accept_appointment up to appointment.save(): the row is read
\* once, the test and the assignment work on the object in memory
accept_appointment(rows, req) ==
    IF guards("accept_appointment", rows, req) # {}
    THEN Stop(CHOOSE e \in guards("accept_appointment", rows, req) : TRUE)
    ELSE IF rows[req.id].status = "pending"
    THEN Go(Saving("accept_appointment", req,
                   [rows[req.id] EXCEPT !.status = "accepted"]))
    ELSE Stop(Answer("accept_appointment", 302, "error", req))

\* doctors.views.reject_appointment up to appointment.save()
reject_appointment(rows, req) ==
    IF guards("reject_appointment", rows, req) # {}
    THEN Stop(CHOOSE e \in guards("reject_appointment", rows, req) : TRUE)
    ELSE IF req.method # "POST"
    THEN Stop(Answer("reject_appointment", 200, "", req))
    ELSE IF rows[req.id].status = "pending"
    THEN Go(Saving("reject_appointment", req,
                   [rows[req.id] EXCEPT !.status = "rejected",
                                        !.doctor_notes = req.rejection_reason]))
    ELSE Stop(Answer("reject_appointment", 302, "error", req))

\* '\n\n'.join(parts)
RECURSIVE join_sections(_)
join_sections(parts) ==
    IF parts = <<>> THEN ""
    ELSE IF Len(parts) = 1 THEN parts[1]
    ELSE parts[1] \o "\n\n" \o join_sections(Tail(parts))

\* the text of a follow_up choice
follow_up_text(follow_up) ==
    CASE follow_up = "none" -> "No follow-up needed"
      [] follow_up = "1_week" -> "Follow-up in 1 week"
      [] follow_up = "2_weeks" -> "Follow-up in 2 weeks"
      [] follow_up = "1_month" -> "Follow-up in 1 month"
      [] follow_up = "3_months" -> "Follow-up in 3 months"
      [] follow_up = "as_needed" -> "Follow-up as needed"
      [] OTHER -> follow_up

\* patient_summary of complete_appointment
patient_summary(form) ==
    (IF form.diagnosis # ""
     THEN <<"DIAGNOSIS/CONDITION:\n" \o form.diagnosis>> ELSE <<>>)
    \o (IF form.patient_instructions # ""
        THEN <<"TREATMENT INSTRUCTIONS:\n" \o form.patient_instructions>>
        ELSE <<>>)
    \o (IF form.follow_up # ""
        THEN <<"FOLLOW-UP REQUIRED:\n" \o follow_up_text(form.follow_up)
               \o (IF form.follow_up_notes # ""
                   THEN "\n\nFOLLOW-UP INSTRUCTIONS:\n" \o form.follow_up_notes
                   ELSE "")>>
        ELSE <<>>)

\* structured_notes of complete_appointment, joined
structured_notes(form) ==
    join_sections(
        (IF form.appointment_notes # ""
         THEN <<"=== PRIVATE MEDICAL NOTES (DOCTOR ONLY) ===\n"
                \o form.appointment_notes>> ELSE <<>>)
        \o (IF patient_summary(form) # <<>>
            THEN <<"=== PATIENT SUMMARY (SHARED) ===\n"
                   \o join_sections(patient_summary(form))>> ELSE <<>>))

\* doctors.views.complete_appointment up to appointment.save()
complete_appointment(rows, req) ==
    IF guards("complete_appointment", rows, req) # {}
    THEN Stop(CHOOSE e \in guards("complete_appointment", rows, req) : TRUE)
    ELSE IF req.method # "POST"
    THEN Stop(Answer("complete_appointment", 200, "", req))
    ELSE IF rows[req.id].status = "accepted"
    THEN Go(Saving("complete_appointment", req,
                   [rows[req.id] EXCEPT !.status = "completed",
                                        !.doctor_notes = structured_notes(req.form)]))
    ELSE Stop(Answer("complete_appointment", 302, "error", req))

\* appointment.save(): an UPDATE of every column of the row with what the
\* object in memory holds, whatever the row holds by now
appointment_save(rows, frame) ==
    [rows EXCEPT ![frame.req.id] = frame.appointment]

\* request.POST of complete_appointment
CompleteForms ==
    {[appointment_notes |-> nf[1], diagnosis |-> nf[2],
      patient_instructions |-> "", follow_up |-> nf[3],
      follow_up_notes |-> nf[4]] :
        nf \in {<<"", "", "", "">>, <<"rest", "", "", "">>,
                <<"", "flu", "1_week", "call">>}}

\* a POST of complete_appointment without fields
EmptyForm ==
    [appointment_notes |-> "", diagnosis |-> "", patient_instructions |-> "",
     follow_up |-> "", follow_up_notes |-> ""]

\* request.POST.get('rejection_reason', '')
RejectionReasons == {"", "busy"}

\* the requests to accept_appointment
AcceptRequests ==
    [method : {"GET", "POST"}, user : Everyone, id : 1..(MaxAppointments + 1)]

\* the requests to reject_appointment: whoever asks, and the doctors with
\* a reason
RejectRequests ==
    [method : {"GET", "POST"}, user : Everyone,
     id : 1..(MaxAppointments + 1), rejection_reason : {""}]
    \cup [method : {"POST"}, user : Doctors, id : 1..MaxAppointments,
          rejection_reason : RejectionReasons]

\* the requests to complete_appointment: whoever asks, and the doctors with
\* a filled form
CompleteRequests ==
    [method : {"GET", "POST"}, user : Everyone,
     id : 1..(MaxAppointments + 1), form : {EmptyForm}]
    \cup [method : {"POST"}, user : Doctors, id : 1..MaxAppointments,
          form : CompleteForms]

\* the request that arrives while another one is being served: dan accepts
\* the first appointment
ConcurrentAccepts == {[method |-> "POST", user |-> "dan", id |-> 1]}

\* the DoctorAvailability rows while appointments are booked: dan receives
\* on Mondays (weekday 0) from 09:00 to 17:00, eve has no record
OfficeHours ==
    {[doctor |-> "dan", weekday |-> 0, start_time |-> "09:00",
      end_time |-> "17:00", is_active |-> TRUE]}

\* what _parse_time_flexible (and the TimeField of a row) makes of the time
\* texts of the model: minutes after midnight for "HH:MM", -1 (None) for a
\* text none of the formats parses
parse_time_flexible(t) ==
    CASE t = "09:00" -> 540
      [] t = "10:00" -> 600
      [] t = "17:00" -> 1020
      [] t = "18:00" -> 1080
      [] OTHER -> -1

\* datetime.datetime.strptime(d, "%Y-%m-%d").weekday() on the dates of the
\* model: 2025-01-06 is a Monday, 2025-01-07 a Tuesday; -1 stands for the
\* ValueError of a text that is no date
strptime_weekday(d) ==
    CASE d = "2025-01-06" -> 0
      [] d = "2025-01-07" -> 1
      [] OTHER -> -1

\* DoctorAvailability.objects.filter(doctor=doctor, weekday=weekday,
\*     is_active=True, start_time__lte=t, end_time__gte=t)
available_at(avail, doctor, weekday, t) ==
    {a \in avail : /\ a.doctor = doctor /\ a.weekday = weekday /\ a.is_active
                   /\ parse_time_flexible(a.start_time) <= t
                   /\ t <= parse_time_flexible(a.end_time)}

\* request.POST of book_appointment: "" is a field left empty, "None" a field
\* the form did not send
BookForm(doctor, appointment_date, appointment_time, reason) ==
    [doctor |-> doctor, appointment_date |-> appointment_date,
     appointment_time |-> appointment_time, reason |-> reason]

\* the forms sent to book_appointment
BookForms ==
    {BookForm("dan", "2025-01-06", "10:00", "checkup"),
     BookForm("dan", "2025-01-06", "10:00", "None"),
     BookForm("dan", "2025-01-06", "18:00", "checkup"),
     BookForm("dan", "2025-01-06", "soon", "checkup"),
     BookForm("dan", "2025-01-06", "", "checkup"),
     BookForm("dan", "2025-01-07", "10:00", "checkup"),
     BookForm("dan", "monday", "10:00", "checkup"),
     BookForm("eve", "2025-01-06", "10:00", "checkup"),
     BookForm("zed", "2025-01-06", "10:00", "checkup")}

\* a request without POST data
NoForm == BookForm("None", "None", "None", "None")

\* the requests to book_appointment
BookRequests ==
    [method : {"GET"}, user : Everyone, form : {NoForm}]
    \cup [method : {"POST"}, user : Everyone \ Patients, form : {NoForm}]
    \cup [method : {"POST"}, user : Patients, form : BookForms]

\* patients.views.book_appointment: the table after the request and the answer
book_appointment(rows, avail, req) ==
    IF req.user = "AnonymousUser"
    THEN [rows |-> rows, response |-> Answer("book_appointment", 302, "login", req)]
    ELSE IF req.user \notin Patients
    THEN [rows |-> rows, response |-> Answer("book_appointment", 302, "error", req)]
    ELSE IF req.method # "POST"
    THEN [rows |-> rows, response |-> Answer("book_appointment", 200, "", req)]
    ELSE IF req.form.doctor \notin Doctors
    THEN [rows |-> rows, response |-> Answer("book_appointment", 404, "", req)]
    ELSE IF req.form.appointment_date \in {"", "None"}
            \/ req.form.appointment_time \in {"", "None"}
    THEN [rows |-> rows, response |-> Answer("book_appointment", 200, "error", req)]
    ELSE IF parse_time_flexible(req.form.appointment_time) = -1
    THEN [rows |-> rows, response |-> Answer("book_appointment", 200, "error", req)]
    ELSE IF strptime_weekday(req.form.appointment_date) = -1
    THEN [rows |-> rows, response |-> Raised("book_appointment", req)]
    ELSE IF available_at(avail, req.form.doctor,
                         strptime_weekday(req.form.appointment_date),
                         parse_time_flexible(req.form.appointment_time)) = {}
    THEN [rows |-> rows, response |-> Answer("book_appointment", 200, "error", req)]
    ELSE IF req.form.reason = "None"
    THEN [rows |-> rows, response |-> Raised("book_appointment", req)]
    ELSE [rows |-> Append(rows, Appointment(req.user, req.form.doctor, "pending")),
          response |-> Answer("book_appointment", 302, "success", req)]

\* the texts of chat messages
hi == <<"h", "i">>
ChatContents == {<<>>, <<" ">>, <<" ">> \o hi}

\* a new Message row
Message(appointment, sender, recipient, content) ==
    [appointment |-> appointment, sender |-> sender, recipient |-> recipient,
     content |-> content, original_content |-> <<>>, is_read |-> FALSE,
     is_edited |-> FALSE, is_deleted |-> FALSE,
     is_deleted_for_everyone |-> FALSE, deleted_by |-> "None",
     edit_count |-> 0]

\* the appointments of a patient with a doctor whatever their status
appointments_any_status(rows, patient, doctor) ==
    {i \in DOMAIN rows : rows[i].patient = patient /\ rows[i].doctor = doctor}

\* Appointment.objects.filter(patient=..., doctor=..., status='accepted')
accepted_appointments(rows, patient, doctor) ==
    {i \in DOMAIN rows : /\ rows[i].patient = patient
                         /\ rows[i].doctor = doctor
                         /\ rows[i].status = "accepted"}

\* .order_by('-created_at').first(): 0 stands for None
most_recent(ids) ==
    IF ids = {} THEN 0 ELSE CHOOSE i \in ids : \A j \in ids : j <= i

\* the locals of send_chat_message before Message.objects.create():
\* appointment is the id of the row the query returned
Creating(view, req, appointment) ==
    [pc |-> "create", view |-> view, req |-> req, appointment |-> appointment]

\* send_chat_message of either side up to Message.objects.create(): group is
\* the group the view asks for, peers the profiles the peer id may name; the
\* patient of the appointment is the user on the patients side and the peer
\* on the doctors side
send_chat_message(view, group, peers, rows, req) ==
    IF req.user = "AnonymousUser"
    THEN Stop(Answer(view, 302, "login", req))
    ELSE IF req.method # "POST"
    THEN Stop(Answer(view, 405, "", req))
    ELSE IF req.user \notin group
    THEN Stop(Answer(view, 403, "", req))
    ELSE IF req.body.kind = "invalid_json"
    THEN Stop(Raised(view, req))
    ELSE IF req.body.peer = "" \/ py_strip(req.body.content) = <<>>
    THEN Stop(Answer(view, 400, "", req))
    ELSE IF req.body.peer \notin peers
    THEN Stop(Answer(view, 404, "", req))
    ELSE Bind(most_recent(IF group = Patients
                          THEN accepted_appointments(rows, req.user, req.body.peer)
                          ELSE accepted_appointments(rows, req.body.peer, req.user)),
              LAMBDA appointment :
                IF appointment = 0
                THEN Stop(Answer(view, 400, "", req))
                ELSE Go(Creating(view, req, appointment)))

\* patients.views.send_chat_message
patients_send_chat_message(rows, req) ==
    send_chat_message("patients_send_chat_message", Patients, Doctors, rows, req)

\* doctors.views.send_chat_message
doctors_send_chat_message(rows, req) ==
    send_chat_message("doctors_send_chat_message", Doctors, Patients, rows, req)

\* Message.objects.create(appointment=appointment, sender=request.user,
\*     recipient=..., content=content)
message_create(msgs, frame) ==
    Append(msgs, Message(frame.appointment, frame.req.user, frame.req.body.peer,
                         py_strip(frame.req.body.content)))

\* request.body of send_chat_message: not JSON, or an object whose doctor_id /
\* patient_id is missing ("") or names a user
ChatBodies ==
    {[kind |-> "invalid_json"]}
    \cup {[kind |-> "object", peer |-> p, content |-> c] :
            p \in {"", "ann"} \cup Doctors, c \in ChatContents}

\* the requests to send_chat_message
ChatRequests == [method : {"GET", "POST"}, user : Everyone, body : ChatBodies]

\* the requests that arrive while a message is being sent: dan accepts or
\* completes one of his appointments
ConcurrentCompletes ==
    [method : {"POST"}, user : {"dan"}, id : 1..MaxAppointments,
     form : {EmptyForm}]

\* the clinic tables with nothing of the engines running
EnginesIdle ==
    /\ dataset = RF_FILE
    /\ df = <<>>
    /\ kind = "rf"
    /\ min_threshold = <<12, 100>>
    /\ phase = "new"
    /\ ov = OV_None
    /\ rf = RF_None
    /\ call = NoCall
    /\ engine_singleton = 0
    /\ instances = <<>>
    /\ threads = <<>>
    /\ response = [view |-> "none"]
    /\ db = NoPredictions

InitAppointment ==
    /\ EnginesIdle
    /\ appointments \in AppointmentTables
    /\ messages = <<>>
    /\ edit_history = <<>>
    /\ availability = OfficeHours
    /\ requests = [r \in 1..AppointmentThreads |-> IdleRequest]
    /\ deleted_for_me = {}

InitMessaging ==
    /\ EnginesIdle
    /\ appointments \in ChatTables
    /\ messages = <<>>
    /\ edit_history = <<>>
    /\ availability = {}
    /\ requests = [r \in 1..AppointmentThreads |-> IdleRequest]
    /\ deleted_for_me = {}

\* what the appointment and chat views leave alone
appointment_frame ==
    <<df, kind, min_threshold, phase, ov, rf, call, dataset, engine_singleton,
      instances, threads, db, edit_history, availability, deleted_for_me>>

\* a view ran up to its write or to its answer: the slot keeps the locals of
\* a view that goes on, the answer of one that stopped is sent
Served(r, e) ==
    /\ requests' = [requests EXCEPT ![r] = e.frame]
    /\ response' = IF e.frame.pc = "idle" THEN e.response ELSE response

\* a request to accept_appointment arrives at slot r and runs up to
\* appointment.save()
AcceptAppointment(r, reqs) ==
    /\ requests[r].pc = "idle"
    /\ \E req \in reqs : Served(r, accept_appointment(appointments, req))
    /\ UNCHANGED <<appointments, messages, appointment_frame>>

\* a request to reject_appointment arrives and runs up to appointment.save()
RejectAppointment(r, reqs) ==
    /\ requests[r].pc = "idle"
    /\ \E req \in reqs : Served(r, reject_appointment(appointments, req))
    /\ UNCHANGED <<appointments, messages, appointment_frame>>

\* a request to complete_appointment arrives and runs up to
\* appointment.save()
CompleteAppointment(r, reqs) ==
    /\ requests[r].pc = "idle"
    /\ \E req \in reqs : Served(r, complete_appointment(appointments, req))
    /\ UNCHANGED <<appointments, messages, appointment_frame>>

\* appointment.save() of the three doctor views, messages.success and the
\* redirect
SaveAppointment(r) ==
    /\ requests[r].pc = "save"
    /\ appointments' = appointment_save(appointments, requests[r])
    /\ response' = Answer(requests[r].view, 302, "success", requests[r].req)
    /\ requests' = [requests EXCEPT ![r] = IdleRequest]
    /\ UNCHANGED <<messages, appointment_frame>>

\* a request to book_appointment: the view reads DoctorProfile and
\* DoctorAvailability, which no action here writes, and then inserts one row
BookAppointment ==
    /\ Len(appointments) < MaxAppointments
    /\ \E req \in BookRequests :
         Bind(book_appointment(appointments, availability, req), LAMBDA e :
              /\ appointments' = e.rows
              /\ response' = e.response)
    /\ UNCHANGED <<messages, requests, appointment_frame>>

\* a request to the patients' send_chat_message arrives and runs up to
\* Message.objects.create()
PatientsSendChatMessage(r) ==
    /\ requests[r].pc = "idle"
    /\ Len(messages) < MaxMessages
    /\ \E req \in ChatRequests :
         Served(r, patients_send_chat_message(appointments, req))
    /\ UNCHANGED <<appointments, messages, appointment_frame>>

\* a request to the doctors' send_chat_message arrives and runs up to
\* Message.objects.create()
DoctorsSendChatMessage(r) ==
    /\ requests[r].pc = "idle"
    /\ Len(messages) < MaxMessages
    /\ \E req \in ChatRequests :
         Served(r, doctors_send_chat_message(appointments, req))
    /\ UNCHANGED <<appointments, messages, appointment_frame>>

\* Message.objects.create() of send_chat_message and the JSON answer
CreateMessage(r) ==
    /\ requests[r].pc = "create"
    /\ messages' = message_create(messages, requests[r])
    /\ response' = Answer(requests[r].view, 200, "", requests[r].req)
    /\ requests' = [requests EXCEPT ![r] = IdleRequest]
    /\ UNCHANGED <<appointments, appointment_frame>>

NextAppointment ==
    \/ BookAppointment
    \/ AcceptAppointment(1, AcceptRequests)
    \/ RejectAppointment(1, RejectRequests)
    \/ CompleteAppointment(1, CompleteRequests)
    \/ AcceptAppointment(2, ConcurrentAccepts)
    \/ \E r \in 1..AppointmentThreads : SaveAppointment(r)

SpecAppointment == InitAppointment /\ [][NextAppointment]_vars

NextMessaging ==
    \/ PatientsSendChatMessage(1)
    \/ DoctorsSendChatMessage(1)
    \/ CreateMessage(1)
    \/ CompleteAppointment(2, ConcurrentCompletes)
    \/ SaveAppointment(2)

SpecMessaging == InitMessaging /\ [][NextMessaging]_vars

\* ------------------------------------------------------------------------
\* Doctor availability: doctors/views.py edit_availability
\* ------------------------------------------------------------------------
\* the weekdays of the form are 0 .. Days - 1 (range(7) in the source)
Days == 2
Weekdays == 0..(Days - 1)

\* the requests in flight at the same time
MaxRequests == 2
RequestIds == 1..MaxRequests

\* what request.POST holds for one day: the checkbox and the two times
DayEntries ==
    {[available |-> FALSE, start_time |-> "09:00", end_time |-> "17:00"],
     [available |-> TRUE, start_time |-> "09:00", end_time |-> "17:00"],
     [available |-> TRUE, start_time |-> "09:00", end_time |-> ""]}

\* request.POST of edit_availability
AvailabilityForms == [Weekdays -> DayEntries]

\* DoctorAvailability.objects.filter(doctor=profile)
availability_of(rows, doctor) == {a \in rows : a.doctor = doctor}

\* the weekdays a set of rows covers
weekdays_of(rows) == {a.weekday : a \in rows}

\* if is_available and start_time and end_time
day_flagged(form, day) ==
    form[day].available /\ form[day].start_time # "" /\ form[day].end_time # ""

\* unique_together = ['doctor', 'weekday']: the insert is refused
IntegrityError(rows, doctor, day) ==
    \E a \in rows : a.doctor = doctor /\ a.weekday = day

\* DoctorAvailability.objects.create(doctor=profile, weekday=day, ...)
availability_create(rows, doctor, day, form) ==
    rows \cup {[doctor |-> doctor, weekday |-> day,
                start_time |-> form[day].start_time,
                end_time |-> form[day].end_time, is_active |-> TRUE]}

\* the request is over: code is the status of the answer, left the weekdays
\* the doctor's rows cover when it ends
Finished(pc, req, code, rows) ==
    [pc |-> pc, user |-> req.user, method |-> req.method,
     form |-> req.form, code |-> code,
     left |-> weekdays_of(availability_of(rows, req.user))]

\* a request stopped by a guard or answered with the page: no form was read
Refused(user, method, code) ==
    [pc |-> "done", user |-> user, method |-> method, code |-> code]

\* the users who call edit_availability
AvailabilityUsers == {"dan", "ann", "AnonymousUser"}

InitAvailability ==
    /\ EnginesIdle
    /\ appointments = <<>>
    /\ messages = <<>>
    /\ edit_history = <<>>
    /\ availability = {}
    /\ deleted_for_me = {}
    /\ requests = [r \in RequestIds |-> IdleRequest]

\* what edit_availability leaves alone
availability_frame ==
    <<df, kind, min_threshold, phase, ov, rf, call, dataset, engine_singleton,
      instances, threads, response, db, appointments, messages, edit_history,
      deleted_for_me>>

\* edit_availability up to the loop: the guards, and on POST
\* DoctorAvailability.objects.filter(doctor=profile).delete()
EditAvailabilityBegin(r) ==
    /\ requests[r].pc \in {"idle", "done", "raised"}
    /\ \E user \in AvailabilityUsers : \E method \in {"GET", "POST"} :
         IF user \notin Doctors
         THEN /\ requests' = [requests EXCEPT ![r] = Refused(user, method, 302)]
              /\ UNCHANGED availability
         ELSE IF method # "POST"
         THEN /\ requests' = [requests EXCEPT ![r] = Refused(user, method, 200)]
              /\ UNCHANGED availability
         ELSE /\ availability' = availability \ availability_of(availability, user)
              /\ \E form \in AvailabilityForms :
                   requests' = [requests EXCEPT ![r] =
                       [pc |-> "loop", user |-> user, method |-> method,
                        form |-> form, day |-> 0]]
    /\ UNCHANGED availability_frame

\* one turn of 'for day in range(7)'
EditAvailabilityDay(r) ==
    /\ requests[r].pc = "loop"
    /\ requests[r].day < Days
    /\ Bind(requests[r], LAMBDA q :
         IF ~day_flagged(q.form, q.day)
         THEN /\ requests' = [requests EXCEPT ![r].day = q.day + 1]
              /\ UNCHANGED availability
         ELSE IF IntegrityError(availability, q.user, q.day)
         THEN /\ requests' = [requests EXCEPT ![r] =
                     Finished("raised", q, 500, availability)]
              /\ UNCHANGED availability
         ELSE /\ availability' = availability_create(availability, q.user, q.day, q.form)
              /\ requests' = [requests EXCEPT ![r].day = q.day + 1])
    /\ UNCHANGED availability_frame

\* the loop is over: messages.success and the redirect
EditAvailabilityReturn(r) ==
    /\ requests[r].pc = "loop"
    /\ requests[r].day = Days
    /\ requests' = [requests EXCEPT ![r] =
           Finished("done", requests[r], 302, availability)]
    /\ UNCHANGED <<availability, availability_frame>>

NextAvailability ==
    \E r \in RequestIds :
        \/ EditAvailabilityBegin(r)
        \/ EditAvailabilityDay(r)
        \/ EditAvailabilityReturn(r)

SpecAvailability == InitAvailability /\ [][NextAvailability]_vars

\* ------------------------------------------------------------------------
\* Chat: get_chat_messages, edit_message, delete_message, clear_chat of
\* patients/views.py and doctors/views.py, statement by statement
\* ------------------------------------------------------------------------
\* the content delete 'for_everyone' leaves
DELETED_TEXT ==
    <<"T", "h", "i", "s", " ", "m", "e", "s", "s", "a", "g", "e", " ",
      "w", "a", "s", " ", "d", "e", "l", "e", "t", "e", "d">>

yo == <<"y", "o">>

\* data.get('content', ''): blank, the text the messages start with, another
EditContents == {<<" ">>, hi, yo \o <<" ">>}

\* the MessageEditHistory rows the table holds at most
MaxHistory == 2

\* the two participants of the conversation
ChatUsers == {"ann", "dan"}

\* the group the views of an app ask for
group_of(side) == IF side = "patients" THEN Patients ELSE Doctors

\* each user calls the views of the app of their group
side_of(user) == IF user \in Doctors THEN "doctors" ELSE "patients"

\* the conversation at the start: a message of ann to dan, and perhaps dan's
\* reply, on their accepted appointment
ChatStarts ==
    {<<Message(1, "ann", "dan", hi)>>,
     <<Message(1, "ann", "dan", hi), Message(1, "dan", "ann", hi)>>}

InitListing ==
    /\ EnginesIdle
    /\ appointments = <<Appointment("ann", "dan", "accepted")>>
    /\ messages \in ChatStarts
    /\ edit_history = <<>>
    /\ availability = {}
    /\ deleted_for_me = {}
    /\ requests = [r \in RequestIds |-> IdleRequest]

\* one message of ann to dan
InitChat ==
    /\ EnginesIdle
    /\ appointments = <<Appointment("ann", "dan", "accepted")>>
    /\ messages = <<Message(1, "ann", "dan", hi)>>
    /\ edit_history = <<>>
    /\ availability = {}
    /\ deleted_for_me = {}
    /\ requests = [r \in RequestIds |-> IdleRequest]

\* what the chat views leave alone
chat_frame ==
    <<df, kind, min_threshold, phase, ov, rf, call, dataset, engine_singleton,
      instances, threads, db, appointments, availability>>

\* the view of request r returns
Return(r, resp) ==
    /\ requests' = [requests EXCEPT ![r] = IdleRequest]
    /\ response' = resp

\* the guards the POST views of the chat share: login_required, the method
\* and the group; the set holds the answer if a guard stops the request
chat_guards(view, req) ==
    IF req.user = "AnonymousUser"
    THEN {Answer(view, 302, "login", req)}
    ELSE IF req.method # "POST"
    THEN {Answer(view, 405, "", req)}
    ELSE IF req.user \notin group_of(req.side)
    THEN {Answer(view, 403, "", req)}
    ELSE {}

\* the requests to edit_message
EditRequests ==
    {[side |-> side_of(u), method |-> "POST", user |-> u, id |-> i,
      content |-> c] :
        u \in ChatUsers, i \in DOMAIN messages, c \in EditContents}

\* edit_message: the assignments to the loaded message before message.save()
edit_local(row, new_content) ==
    [row EXCEPT !.original_content =
                    IF row.original_content = <<>> THEN row.content
                    ELSE row.original_content,
                !.content = new_content,
                !.is_edited = TRUE,
                !.edit_count = row.edit_count + 1]

\* edit_message up to and including
\* get_object_or_404(Message, id=message_id, sender=request.user) and the
\* tests on the loaded message
EditMessageBegin(r) ==
    /\ requests[r].pc = "idle"
    /\ Len(edit_history) < MaxHistory
    /\ \E req \in EditRequests :
         IF chat_guards("edit_message", req) # {}
         THEN Return(r, CHOOSE a \in chat_guards("edit_message", req) : TRUE)
         ELSE IF py_strip(req.content) = <<>>
         THEN Return(r, Answer("edit_message", 400, "", req))
         ELSE IF ~(req.id \in DOMAIN messages /\ messages[req.id].sender = req.user)
         THEN Return(r, Answer("edit_message", 500, "", req))
         ELSE IF messages[req.id].is_deleted_for_everyone
         THEN Return(r, Answer("edit_message", 400, "", req))
         ELSE IF messages[req.id].content = py_strip(req.content)
         THEN Return(r, Answer("edit_message", 200, "", req))
         ELSE /\ requests' = [requests EXCEPT ![r] =
                     [pc |-> "history", view |-> "edit_message", request |-> req,
                      message |-> messages[req.id]]]
              /\ UNCHANGED response
    /\ UNCHANGED <<messages, edit_history, deleted_for_me, chat_frame>>

\* MessageEditHistory.objects.create(message=message,
\* previous_content=message.content, edited_by=request.user)
EditMessageHistory(r) ==
    /\ requests[r].pc = "history"
    /\ edit_history' = Append(edit_history,
           [message |-> requests[r].request.id,
            previous_content |-> requests[r].message.content,
            edited_by |-> requests[r].request.user])
    /\ requests' = [requests EXCEPT ![r].pc = "save"]
    /\ UNCHANGED <<messages, response, deleted_for_me, chat_frame>>

\* the assignments and message.save(), which writes every field of the
\* loaded message, and the answer
EditMessageSave(r) ==
    /\ requests[r].pc = "save"
    /\ requests[r].view = "edit_message"
    /\ messages' = [messages EXCEPT ![requests[r].request.id] =
           edit_local(requests[r].message, py_strip(requests[r].request.content))]
    /\ Return(r, Answer("edit_message", 200, "", requests[r].request))
    /\ UNCHANGED <<edit_history, deleted_for_me, chat_frame>>

\* the requests to delete_message
DeleteRequests ==
    {[side |-> side_of(u), method |-> "POST", user |-> u, id |-> i,
      delete_type |-> d] :
        u \in ChatUsers, i \in DOMAIN messages,
        d \in {"for_me", "for_everyone"}}

\* delete_message: the assignments to the loaded message
delete_local(row, req) ==
    IF req.delete_type = "for_everyone"
    THEN [row EXCEPT !.is_deleted_for_everyone = TRUE,
                     !.deleted_by = req.user,
                     !.content = DELETED_TEXT]
    ELSE [row EXCEPT !.is_deleted = TRUE]

\* delete_message up to and including get_object_or_404(Message, id=message_id)
\* and the permission tests
DeleteMessageBegin(r) ==
    /\ requests[r].pc = "idle"
    /\ \E req \in DeleteRequests :
         IF chat_guards("delete_message", req) # {}
         THEN Return(r, CHOOSE a \in chat_guards("delete_message", req) : TRUE)
         ELSE IF req.id \notin DOMAIN messages
         THEN Return(r, Answer("delete_message", 500, "", req))
         ELSE IF /\ messages[req.id].sender # req.user
                 /\ messages[req.id].recipient # req.user
         THEN Return(r, Answer("delete_message", 403, "", req))
         ELSE IF /\ req.delete_type = "for_everyone"
                 /\ messages[req.id].sender # req.user
         THEN Return(r, Answer("delete_message", 403, "", req))
         ELSE /\ requests' = [requests EXCEPT ![r] =
                     [pc |-> "save", view |-> "delete_message", request |-> req,
                      message |-> messages[req.id]]]
              /\ UNCHANGED response
    /\ UNCHANGED <<messages, edit_history, deleted_for_me, chat_frame>>

\* the assignments, message.save() and the answer of delete_message
DeleteMessageSave(r) ==
    /\ requests[r].pc = "save"
    /\ requests[r].view = "delete_message"
    /\ messages' = [messages EXCEPT ![requests[r].request.id] =
           delete_local(requests[r].message, requests[r].request)]
    /\ deleted_for_me' =
           IF requests[r].request.delete_type = "for_me"
           THEN deleted_for_me \cup
                    {<<requests[r].request.user, requests[r].request.id>>}
           ELSE deleted_for_me
    /\ Return(r, Answer("delete_message", 200, "", requests[r].request))
    /\ UNCHANGED <<edit_history, chat_frame>>

\* Message.objects.filter(appointment__patient=..., appointment__doctor=...,
\* appointment__status='accepted') for the user and the peer of a request
conversation(rows, msgs, req) ==
    {i \in DOMAIN msgs :
        msgs[i].appointment \in
            (IF req.side = "patients"
             THEN accepted_appointments(rows, req.user, req.peer)
             ELSE accepted_appointments(rows, req.peer, req.user))}

\* the requests to clear_chat (POST) and get_chat_messages (GET)
PeerRequests(method) ==
    {[side |-> side_of(u), method |-> method, user |-> u, peer |-> p] :
        u \in ChatUsers, p \in ChatUsers}

\* the ids of a set in increasing order
RECURSIVE in_order(_)
in_order(ids) ==
    IF ids = {} THEN <<>>
    ELSE Bind(CHOOSE i \in ids : \A j \in ids : i <= j, LAMBDA i :
              <<i>> \o in_order(ids \ {i}))

\* the rows of a queryset of Message without order_by, as Meta.ordering =
\* ['-created_at'] lists them: the newest first
newest_message_first(ids) == py_reversed(in_order(ids))

\* clear_chat up to the loop: the guards, the two get_object_or_404 and the
\* query the loop iterates over (the rows are read when the loop starts)
ClearChatBegin(r) ==
    /\ requests[r].pc = "idle"
    /\ \E req \in PeerRequests("POST") :
         IF chat_guards("clear_chat", req) # {}
         THEN Return(r, CHOOSE a \in chat_guards("clear_chat", req) : TRUE)
         ELSE IF req.peer \notin group_of(IF req.side = "patients"
                                          THEN "doctors" ELSE "patients")
         THEN Return(r, Answer("clear_chat", 500, "", req))
         ELSE /\ requests' = [requests EXCEPT ![r] =
                     [pc |-> "clear", view |-> "clear_chat", request |-> req,
                      ids |-> newest_message_first(
                                  conversation(appointments, messages, req)),
                      loaded |-> messages]]
              /\ UNCHANGED response
    /\ UNCHANGED <<messages, edit_history, deleted_for_me, chat_frame>>

\* clear_chat: the assignments to one loaded message
clear_local(row, user) ==
    IF row.sender = user
    THEN [row EXCEPT !.is_deleted_for_everyone = TRUE,
                     !.deleted_by = user,
                     !.content = DELETED_TEXT]
    ELSE [row EXCEPT !.is_deleted = TRUE]

\* one turn of 'for message in messages' with its message.save()
ClearChatSave(r) ==
    /\ requests[r].pc = "clear"
    /\ requests[r].ids # <<>>
    /\ Bind(requests[r], LAMBDA q :
         /\ messages' = [messages EXCEPT ![Head(q.ids)] =
                clear_local(q.loaded[Head(q.ids)], q.request.user)]
         /\ deleted_for_me' =
                IF q.loaded[Head(q.ids)].sender = q.request.user
                THEN deleted_for_me
                ELSE deleted_for_me \cup {<<q.request.user, Head(q.ids)>>}
         /\ requests' = [requests EXCEPT ![r].ids = Tail(q.ids)])
    /\ UNCHANGED <<edit_history, response, chat_frame>>

\* the loop of clear_chat is over
ClearChatReturn(r) ==
    /\ requests[r].pc = "clear"
    /\ requests[r].ids = <<>>
    /\ Return(r, Answer("clear_chat", 200, "", requests[r].request))
    /\ UNCHANGED <<messages, edit_history, deleted_for_me, chat_frame>>

\* the messages get_chat_messages lists: .filter(...,
\* is_deleted_for_everyone=False).exclude(is_deleted=True, recipient=user)
\* .exclude(is_deleted=True, sender=user)
listed(rows, msgs, req) ==
    {i \in conversation(rows, msgs, req) :
        /\ ~msgs[i].is_deleted_for_everyone
        /\ ~(msgs[i].is_deleted /\ msgs[i].recipient = req.user)
        /\ ~(msgs[i].is_deleted /\ msgs[i].sender = req.user)}

\* messages.filter(recipient=request.user, is_read=False)
\*     .update(is_read=True): one UPDATE of the column is_read
mark_read(rows, msgs, req) ==
    [i \in DOMAIN msgs |->
        IF i \in listed(rows, msgs, req) /\ msgs[i].recipient = req.user
        THEN [msgs[i] EXCEPT !.is_read = TRUE]
        ELSE msgs[i]]

\* get_chat_messages up to and including the UPDATE that marks the received
\* messages read: the group test, get_object_or_404 of the peer, the UPDATE
GetChatMessages(r) ==
    /\ requests[r].pc = "idle"
    /\ \E req \in PeerRequests("GET") :
         IF req.user \notin group_of(req.side)
         THEN /\ Return(r, Answer("get_chat_messages", 403, "", req))
              /\ UNCHANGED messages
         ELSE IF req.peer \notin group_of(IF req.side = "patients"
                                          THEN "doctors" ELSE "patients")
         THEN /\ Return(r, Answer("get_chat_messages", 404, "", req))
              /\ UNCHANGED messages
         ELSE /\ messages' = mark_read(appointments, messages, req)
              /\ requests' = [requests EXCEPT ![r] =
                     [pc |-> "list", view |-> "get_chat_messages",
                      request |-> req]]
              /\ UNCHANGED response
    /\ UNCHANGED <<edit_history, deleted_for_me, chat_frame>>

\* 'for msg in messages': the SELECT of get_chat_messages, ordered by
\* created_at, and the JsonResponse with the rows it finds now
GetChatMessagesList(r) ==
    /\ requests[r].pc = "list"
    /\ Return(r, [view |-> "get_chat_messages", code |-> 200,
                  flash |-> "", raised |-> FALSE,
                  request |-> requests[r].request,
                  messages |-> in_order(listed(appointments, messages,
                                               requests[r].request))])
    /\ UNCHANGED <<messages, edit_history, deleted_for_me, chat_frame>>

NextEdit ==
    \E r \in RequestIds :
        \/ EditMessageBegin(r)
        \/ EditMessageHistory(r)
        \/ EditMessageSave(r)

SpecEdit == InitChat /\ [][NextEdit]_vars

\* edit, delete and clear requests, two at a time
NextChat ==
    \E r \in RequestIds :
        \/ EditMessageBegin(r)
        \/ EditMessageHistory(r)
        \/ EditMessageSave(r)
        \/ DeleteMessageBegin(r)
        \/ DeleteMessageSave(r)
        \/ ClearChatBegin(r)
        \/ ClearChatSave(r)
        \/ ClearChatReturn(r)

SpecChat == InitChat /\ [][NextChat]_vars

\* delete and clear requests in the first slot, listing requests next to
\* them in the second
NextListing ==
    \/ DeleteMessageBegin(1)
    \/ DeleteMessageSave(1)
    \/ ClearChatBegin(1)
    \/ ClearChatSave(1)
    \/ ClearChatReturn(1)
    \/ GetChatMessages(2)
    \/ GetChatMessagesList(2)

SpecListing == InitListing /\ [][NextListing]_vars

\* ------------------------------------------------------------------------
\* Properties
\* ------------------------------------------------------------------------
\* the last call is predict on the overlap engine / on the random forest
OvCalled == kind = "overlap" /\ phase = "ready" /\ call.op = "predict"
RfCalled == kind = "rf" /\ phase = "ready" /\ call.op = "predict"

\* the normalized tokens of a symptom list, each computed from scratch
OvTokens(symptoms) ==
    {OV_norm(EmptyCache, symptoms[i]).v :
        i \in {j \in 1..Len(symptoms) : symptoms[j] # <<>>}}
RfTokens(symptoms) ==
    {RF_norm(EmptyCache, symptoms[i]).v : i \in 1..Len(symptoms)}

\* the Jaccard score of the input set I and the row set R, as <<n, d>>
Jaccard(I, R) == <<Cardinality(I \cap R), Cardinality(I \cup R)>>

\* a = b on scores
score_eq(a, b) == a[1] * b[2] = b[1] * a[2]

\* the positions of the compiled rows that intersect I
Intersecting(rows, I) == {k \in 1..Len(rows) : I \cap rows[k].symptoms # {}}

\* row a is preferred to row b for the input I: the higher score, then the
\* larger intersection, then the earlier position
Preferred(rows, I, a, b) ==
    LET sa == Jaccard(I, rows[a].symptoms)
        sb == Jaccard(I, rows[b].symptoms)
        ia == Cardinality(I \cap rows[a].symptoms)
        ib == Cardinality(I \cap rows[b].symptoms)
    IN \/ score_gt(sa, sb)
       \/ score_eq(sa, sb) /\ ia > ib
       \/ score_eq(sa, sb) /\ ia = ib /\ a < b

\* the row the tie-break rule selects among the rows that intersect I
Selected(rows, I) ==
    CHOOSE k \in Intersecting(rows, I) :
        \A j \in Intersecting(rows, I) \ {k} : Preferred(rows, I, k, j)

\* the permutations of a list
Perms(s) ==
    {[i \in 1..Len(s) |-> s[p[i]]] :
        p \in {q \in [1..Len(s) -> 1..Len(s)] :
                  \A i, j \in 1..Len(s) : i # j => q[i] # q[j]}}

\* the compiled rows are those of the Flu / Cold example
FluColdExample ==
    /\ Len(ov._compiled_rows) = 2
    /\ ov._compiled_rows[1].disease = "Flu"
    /\ ov._compiled_rows[1].symptoms = {fever, cough, fatigue}
    /\ ov._compiled_rows[2].disease = "Cold"
    /\ ov._compiled_rows[2].symptoms = {cough, sneezing}

\* C1: when the overlap engine's predict is called with exactly the symptoms
\* of a row whose compiled symptom set is non-empty, the score is 1.0 and the
\* result is 'success' with confidence 100.0; with the compiled rows
\* Flu {fever, cough, fatigue} and Cold {cough, sneezing},
\* predict(['fever','cough','fatigue']) returns 'Flu' and
\* predict(['sneezing','cough']) returns 'Cold'.
C1_ExactMatchScoresOne ==
    OvCalled =>
      /\ (\E k \in 1..Len(ov._compiled_rows) :
             /\ ov._compiled_rows[k].symptoms # {}
             /\ call.symptoms # <<>>
             /\ OvTokens(call.symptoms) = ov._compiled_rows[k].symptoms)
         => /\ call.result.status = "success"
            /\ call.result.confidence = 1000
            /\ call.result.debug.score[1] = call.result.debug.score[2]
      /\ (FluColdExample /\ call.symptoms = <<fever, cough, fatigue>>)
         => call.result.predicted_disease = "Flu"
      /\ (FluColdExample /\ call.symptoms = <<sneezing, cough>>)
         => call.result.predicted_disease = "Cold"

\* predict(['sneezing','cough']) has returned on the Flu / Cold example
C1_Witness ==
    /\ OvCalled
    /\ FluColdExample
    /\ call.symptoms = <<sneezing, cough>>
    /\ call.result.predicted_disease = "Cold"
    /\ call.result.confidence = 1000
    /\ call.scored = 2

\* C2: on the table Flu (fever, cough, fatigue) / Cold (cough, sneezing,
\* third cell missing), predict(['cough']) returns 'Cold' with confidence
\* 50.0, Cold scoring 1/2 against Flu's 1/3.
C2_ColdWinsOnCough ==
    (OvCalled /\ df = <<RowFlu, RowColdMissing>> /\ call.symptoms = <<cough>>)
    => /\ call.result.predicted_disease = "Cold"
       /\ call.result.confidence = 500

\* C3: the row predict selects has the maximal score among the rows that
\* intersect the input; among rows of equal score it has the largest
\* intersection; among rows still tied it is the first loaded.
C3_TieBreak ==
    (/\ OvCalled
     /\ call.symptoms # <<>>
     /\ Intersecting(ov._compiled_rows, OvTokens(call.symptoms)) # {})
    => LET I == OvTokens(call.symptoms)
           sel == Selected(ov._compiled_rows, I)
       IN /\ call.result.status \in {"success", "low_match"}
          /\ score_eq(call.result.debug.score,
                      Jaccard(I, ov._compiled_rows[sel].symptoms))
          /\ call.result.status = "success"
             => /\ call.result.debug.row_index
                    = ov._compiled_rows[sel].row_index
                /\ call.result.predicted_disease
                    = ov._compiled_rows[sel].disease
                /\ call.result.debug.matched_symptoms
                    = py_sorted(I \cap ov._compiled_rows[sel].symptoms)

\* two rows tie on the score and the second, with the larger intersection,
\* is the one returned
C3_Witness ==
    /\ OvCalled
    /\ call.symptoms # <<>>
    /\ call.result.status = "success"
    /\ Len(ov._compiled_rows) = 2
    /\ call.result.debug.row_index = 1
    /\ LET I == OvTokens(call.symptoms)
       IN /\ Intersecting(ov._compiled_rows, I) = {1, 2}
          /\ score_eq(Jaccard(I, ov._compiled_rows[1].symptoms),
                      Jaccard(I, ov._compiled_rows[2].symptoms))
          /\ Cardinality(I \cap ov._compiled_rows[1].symptoms)
               < Cardinality(I \cap ov._compiled_rows[2].symptoms)

\* C4: on a request that reaches the scoring loop, predict returns 'success'
\* with a row's disease only if the best score is at least min_threshold;
\* when the best score is below min_threshold or no row intersects the input
\* the result is 'low_match' with predicted_disease 'Unknown' and debug
\* carrying the best score and the threshold.
C4_ThresholdGate ==
    (OvCalled /\ call.symptoms # <<>> /\ OvTokens(call.symptoms) # {})
    => LET I == OvTokens(call.symptoms)
           rows == ov._compiled_rows
           none == Intersecting(rows, I) = {}
           best == IF none THEN <<0, 1>>
                   ELSE Jaccard(I, rows[Selected(rows, I)].symptoms)
       IN /\ call.result.status \in {"success", "low_match"}
          /\ call.result.status = "success"
             => /\ ~none
                /\ ~score_lt(best, ov.min_threshold)
                /\ call.result.predicted_disease # "Unknown"
                /\ \E k \in 1..Len(rows) :
                      rows[k].disease = call.result.predicted_disease
          /\ (none \/ score_lt(best, ov.min_threshold))
             => /\ call.result.status = "low_match"
                /\ call.result.predicted_disease = "Unknown"
                /\ call.result.debug.keys = {"score", "threshold"}
                /\ score_eq(call.result.debug.score, best)
                /\ call.result.debug.threshold = ov.min_threshold

\* a row intersects the input with a score below min_threshold
C4_Witness ==
    /\ OvCalled
    /\ call.symptoms # <<>>
    /\ call.result.status = "low_match"
    /\ call.result.debug.score[1] > 0
    /\ score_lt(call.result.debug.score, ov.min_threshold)

\* C5: in both engines, a non-empty symptom list none of whose symptoms
\* normalizes to a token of the dataset vocabulary gives status
\* 'unrecognized'; the random forest's classifier is not invoked for it.
\* The overlap engine is taken on a dataset whose vocabulary is not empty.
C5_OutOfVocabularyIsUnrecognized ==
    /\ (/\ OvCalled
        /\ call.symptoms # <<>>
        /\ ov.available_symptoms # <<>>
        /\ \A i \in 1..Len(call.symptoms) :
              \A j \in 1..Len(ov.available_symptoms) :
                 OV_norm(EmptyCache, call.symptoms[i]).v
                    # ov.available_symptoms[j])
       => call.result.status = "unrecognized"
    /\ (/\ RfCalled
        /\ call.symptoms # <<>>
        /\ \A i \in 1..Len(call.symptoms) :
              \A j \in 1..Len(rf.symptom_vocab) :
                 RF_norm(EmptyCache, call.symptoms[i]).v # rf.symptom_vocab[j])
       => /\ call.result.status = "unrecognized"
          /\ ~call.invoked

\* the well-formed 'no_symptoms' result of the engine of this kind
NoSymptomsResult(result) ==
    /\ result.status = "no_symptoms"
    /\ result.predicted_disease = "Unknown"
    /\ result.confidence = 0
    /\ result.medicine_recommendation # <<>>
    /\ result.diet_recommendation # <<>>

\* C6: in both engines predict([]) returns status 'no_symptoms',
\* predicted_disease 'Unknown' and confidence 0, no row is scored, the
\* classifier is not invoked and every attribute of the engine is left as
\* it was.
C6_EmptyListIsNoSymptoms ==
    [][(call'.op = "predict" /\ call'.symptoms = <<>>)
       => /\ NoSymptomsResult(call'.result)
          /\ ov' = ov /\ rf' = rf /\ phase' = phase
          /\ ~call'.mutated
          /\ kind = "overlap" => (call'.scored = 0 /\ call'.result.debug.keys = {})
          /\ kind = "rf" => (~call'.invoked /\ call'.result.candidates = <<>>
                             /\ call'.vec = <<>>)]_vars

\* predict([]) has returned on a trained random forest whose cache is filled
C6_Witness ==
    /\ RfCalled
    /\ call.symptoms = <<>>
    /\ call.result.status = "no_symptoms"
    /\ rf.model.fitted
    /\ rf.symptom_vocab # <<>>

\* C7: after the initialization of either engine neither the vocabulary nor
\* any row's symptom set contains the empty token or the token 'nan'.
C7_NoMissingMarkerInVocabulary ==
    /\ (kind = "overlap" /\ phase = "ready")
       => /\ \A i \in 1..Len(ov.available_symptoms) :
                ov.available_symptoms[i] \notin {<<>>, <<"n","a","n">>}
          /\ \A k \in 1..Len(ov._compiled_rows) :
                ov._compiled_rows[k].symptoms \cap {<<>>, <<"n","a","n">>} = {}
    /\ (kind = "rf" /\ phase = "ready")
       => /\ \A i \in 1..Len(rf.symptom_vocab) :
                rf.symptom_vocab[i] \notin {<<>>, <<"n","a","n">>}
          /\ \A k \in 1..Len(rf._row_symptom_sets) :
                rf._row_symptom_sets[k] \cap {<<>>, <<"n","a","n">>} = {}

\* the tokens of the rows of a table, each cell split and normalized from
\* scratch
RowTokens(table) ==
    UNION {UNION {{p \in {RF_split_cell(EmptyCache, table[k].cells[c]).parts[n] :
                             n \in 1..Len(RF_split_cell(EmptyCache,
                                                        table[k].cells[c]).parts)} :
                      p # <<>>} :
                  c \in 1..Len(table[k].cells)} :
           k \in 1..Len(table)}

\* C8: after _prepare of the random forest, symptom_vocab is the sorted list
\* of the distinct non-empty normalized tokens of the rows, symptom_index
\* maps symptom_vocab[i] to i and nothing else, and an engine prepared from
\* the same rows in any other order has the same vocabulary and index.
C8_VocabularySortedAndIndexed ==
    (kind = "rf" /\ phase = "ready")
    => /\ {rf.symptom_vocab[i] : i \in 1..Len(rf.symptom_vocab)} = RowTokens(df)
       /\ Len(rf.symptom_vocab) = Cardinality(RowTokens(df))
       /\ \A i, j \in 1..Len(rf.symptom_vocab) :
             i < j => py_str_lt(rf.symptom_vocab[i], rf.symptom_vocab[j])
       /\ DOMAIN rf.symptom_index = RowTokens(df)
       /\ \A i \in 1..Len(rf.symptom_vocab) :
             rf.symptom_index[rf.symptom_vocab[i]] = i - 1
       /\ \A other \in Perms(df) :
             /\ RF_prepare(other).symptom_vocab = rf.symptom_vocab
             /\ RF_prepare(other).symptom_index = rf.symptom_index

\* a random forest prepared from two rows whose tokens first appear in an
\* order that is not the sorted one
C8_Witness ==
    /\ kind = "rf" /\ phase = "ready"
    /\ Len(df) = 2
    /\ df[1] # df[2]
    /\ Len(rf.symptom_vocab) >= 3
    /\ rf._row_symptom_sets[1] # rf._row_symptom_sets[2]
    /\ rf.symptom_vocab[1] \notin rf._row_symptom_sets[1]

\* C9: _norm of either engine is idempotent on the strings over letters,
\* spaces and underscores, whatever the cache holds: _norm(_norm(s)) is
\* _norm(s).
C9_NormIdempotent ==
    call.op = "_norm" => call.outer = call.inner

\* _norm has rewritten a raw string on a cache that an earlier call of
\* _norm had filled
C9_Witness ==
    /\ call.op = "_norm"
    /\ call.s # call.inner
    /\ call.inner # <<>>
    /\ \E c \in 1..Len(call.s) : call.s[c] = "_"
    /\ \E c \in 1..Len(call.s) : call.s[c] = "A"
    /\ kind = "overlap"
    /\ Cardinality(DOMAIN ov._normalize_cache) > MaxCache

\* C10: _vectorize returns the same vector for every permutation of the
\* symptom list, a symptom outside the vocabulary sets no bit, and bit i is 1
\* exactly when some symptom of the list normalizes to symptom_vocab[i].
C10_VectorizeOrderIndependent ==
    (RfCalled /\ call.symptoms # <<>>)
    => /\ Len(call.vec) = Len(rf.symptom_vocab)
       /\ \A i \in 1..Len(call.vec) :
             call.vec[i] = (IF rf.symptom_vocab[i] \in RfTokens(call.symptoms)
                            THEN 1 ELSE 0)
       /\ \A other \in Perms(call.symptoms) :
             /\ RF_vectorize(rf, other).vec = call.vec
             /\ RF_vectorize([rf EXCEPT !._normalize_cache = EmptyCache],
                             other).vec = call.vec

\* _vectorize has returned on a list of two different symptoms, one of the
\* vocabulary and one outside it
C10_Witness ==
    /\ RfCalled
    /\ Len(call.symptoms) = 2
    /\ call.symptoms[1] # call.symptoms[2]
    /\ vec_sum(call.vec) = 1
    /\ Len(call.vec) >= 2
    /\ \E i \in 1..2 : RF_norm(EmptyCache, call.symptoms[i]).v
                          \notin DOMAIN rf.symptom_index
    /\ call.symptoms[2] # <<>>
    /\ RF_norm(EmptyCache, call.symptoms[2]).v \in DOMAIN rf.symptom_index
    /\ call.vec[Len(call.vec)] = 0

\* the class indices in descending probability, classes of equal
\* probability in class order
RankedClasses(proba) ==
    CHOOSE q \in np_argsort(proba) :
        \A i, j \in 1..Len(proba) :
            i < j => \/ proba[q[i]] < proba[q[j]]
                     \/ proba[q[i]] = proba[q[j]] /\ q[i] > q[j]

\* C11: on a success result of the random forest, 'candidates' lists the
\* min(3, number of classes) classes of highest probability in descending
\* probability, classes of equal probability in class order (lower class
\* index first).
C11_CandidatesRankedByClassOrder ==
    (RfCalled /\ call.result.status = "success")
    => /\ Len(call.result.candidates)
            = (IF Len(rf.model.classes) < 3 THEN Len(rf.model.classes) ELSE 3)
       /\ \A i \in 1..Len(call.result.candidates) :
             /\ call.result.candidates[i].disease
                  = rf.model.classes[top3(RankedClasses(call.proba))[i]]
             /\ call.result.candidates[i].confidence
                  = py_round1(call.proba[top3(RankedClasses(call.proba))[i]],
                              ProbaUnits)

\* the rows of the predicted disease
RowsOf(disease) == {k \in 1..Len(df) : df[k].disease = disease}

\* C12: the row whose texts _best_recommendations returns belongs to the
\* given disease, has the largest intersection of its symptom set with the
\* normalized input among the rows of that disease, and is the first such
\* row in load order.
C12_BestRecommendationRow ==
    (RfCalled /\ call.result.status = "success")
    => LET d == call.result.predicted_disease
           I == OvTokens(call.symptoms)
           size(k) == Cardinality(I \cap rf._row_symptom_sets[k])
       IN /\ call.row \in RowsOf(d)
          /\ \A k \in RowsOf(d) : size(k) <= size(call.row)
          /\ \A k \in RowsOf(d) : size(k) = size(call.row) => call.row <= k
          /\ call.result.medicine_recommendation
               = RF_text(df[call.row].medicine, RF_MSG_CONSULT)
          /\ call.result.diet_recommendation
               = RF_text(df[call.row].diet, RF_MSG_DIET)
          /\ call.result.foods_to_avoid
               = RF_text(df[call.row].avoid, RF_MSG_AVOID)

\* two rows of the predicted disease, the second with the larger
\* intersection, and the second is the one chosen
C12_Witness ==
    /\ RfCalled
    /\ call.result.status = "success"
    /\ Len(df) = 2
    /\ df[1].disease = df[2].disease
    /\ call.row = 2
    /\ Cardinality(OvTokens(call.symptoms) \cap rf._row_symptom_sets[1])
         < Cardinality(OvTokens(call.symptoms) \cap rf._row_symptom_sets[2])

\* a text that is no recommendation: empty, or the missing-value marker
NoText(x) == x = <<>> \/ py_lower(py_strip(x)) = <<"n","a","n">>

\* C13: on every 'success' result of either engine each recommendation text
\* is the chosen row's text when the row has one and a generic fallback text
\* otherwise; 'nan' or the empty string is never returned.
C13_RecommendationTextsDefaulted ==
    /\ (OvCalled /\ call.result.status = "success")
       => LET row == df[call.result.debug.row_index + 1]
          IN /\ ~NoText(call.result.medicine_recommendation)
             /\ ~NoText(call.result.diet_recommendation)
             /\ call.result.medicine_recommendation
                  = (IF row.medicine.nan \/ NoText(py_strip(row.medicine.s))
                     THEN OV_MSG_CONSULT ELSE py_strip(row.medicine.s))
             /\ call.result.diet_recommendation
                  = (IF row.diet.nan \/ NoText(py_strip(row.diet.s))
                     THEN OV_MSG_BALANCED ELSE py_strip(row.diet.s))
    /\ (RfCalled /\ call.result.status = "success")
       => /\ ~NoText(call.result.medicine_recommendation)
          /\ ~NoText(call.result.diet_recommendation)
          /\ ~NoText(call.result.foods_to_avoid)

\* C14: for every interleaving of concurrent get_engine() calls, the engine is
\* constructed at most once and every caller receives the same instance.
C14_ConstructedOnce ==
    /\ Len(instances) <= 1
    /\ \A t \in DOMAIN threads : \A u \in DOMAIN threads :
          (threads[t].ret # 0 /\ threads[u].ret # 0)
              => threads[t].ret = threads[u].ret

\* C15: once RandomForestDatasetEngine is constructed, no call of predict or
\* get_available_symptoms changes an attribute of the engine; in particular
\* _normalize_cache after the call is what it was before.
C15_EngineReadOnlyAfterInit ==
    (kind = "rf" /\ phase = "ready" /\ call.op = "predict")
        => ~call.mutated

\* the normalization of k written out, with no cache
Uncached(k) ==
    py_replace(py_strip(space_re_sub(py_lower(py_strip(k)))), " ", "_")

\* C16: the normalization cache is a pure memoization: under every
\* interleaving of _norm calls from several threads, every cache entry k -> v
\* has v equal to the uncached normalization of k, and every call returns
\* what an engine with no cache returns.
C16_CachePureMemoization ==
    /\ \A k \in DOMAIN shared_cache : shared_cache[k] = Uncached(k)
    /\ \A t \in DOMAIN threads :
          threads[t].pc = "done" => threads[t].ret = Uncached(threads[t].s)

\* two threads missed on the same raw spelling and both stored it, and the
\* cache holds it
C16_Witness ==
    /\ DOMAIN threads = 1..NormThreads
    /\ threads[1].pc = "stored" /\ threads[2].pc = "stored"
    /\ threads[1].s = threads[2].s
    /\ threads[1].v # threads[1].s
    /\ threads[1].s \in DOMAIN shared_cache

\* the last response answers a request that reached the view body
Answered(view) == response.view = view

\* C17: when the dataset file is missing or cannot be parsed, get_engine()
\* stores no engine and the patients predict_disease_api never answers 200
\* with a predicted disease.
C17_NoPredictionWithoutDataset ==
    dataset.state # "ok" =>
        /\ engine_singleton = 0
        /\ instances = <<>>
        /\ ~(Answered("patients") /\ response.code = 200)

\* the statuses of the result contract
StatusEnum ==
    {"success", "no_symptoms", "unrecognized", "low_match", "error", "fallback"}

\* C18: the status of every result that leaves the subsystem (a result of
\* RandomForestDatasetEngine.predict sent by a view, or a 200 response of the
\* patients view through the fallback chain) is one of success, no_symptoms,
\* unrecognized, low_match, error, fallback.
C18_StatusInEnum ==
    ((Answered("patients") \/ Answered("ml_prediction")) /\ response.code = 200)
        => response.result.status \in StatusEnum

\* the last request was an authenticated POST to one of the two views
AuthenticatedPost ==
    /\ (Answered("patients") \/ Answered("ml_prediction"))
    /\ response.request.authenticated
    /\ response.request.method = "POST"

\* C19 as stated: every authenticated POST to either view is answered by a
\* JSON response with status 200, 400 or 500 (an 'error' message unless 200),
\* and no exception leaves the view.
C19_ContainedAs200_400_500 ==
    AuthenticatedPost =>
        /\ response.json /\ ~response.raised
        /\ response.code \in {200, 400, 500}
        /\ (response.code # 200 => response.error)

\* C19: every authenticated POST to either view is answered by a JSON
\* response and no exception leaves the view, whatever the body and whatever
\* the engine raises; the status is 200, 400 or 500, or 403 when the patients
\* view is called by a user outside the group 'Patients'; every response
\* other than 200 carries an 'error' message.
C19_PerRequestFailuresContained ==
    AuthenticatedPost =>
        /\ response.json /\ ~response.raised
        /\ response.code \in {200, 400, 403, 500}
        /\ (response.code = 403
               <=> (Answered("patients") /\ ~response.request.in_group))
        /\ (response.code # 200 => response.error)

\* predict raised on a constructed engine (on an item such as 5, which is
\* true, not a str and equal to itself, after the str before it went into
\* the cache), the legacy engine answered, and
\* the patients view answered with a JSON error when ', '.join raised
C19_Witness ==
    /\ AuthenticatedPost /\ Answered("patients")
    /\ engine_singleton # 0
    /\ <<"x","y","z">> \in DOMAIN instances[engine_singleton]._normalize_cache
    /\ response.chain.rf = "raised" /\ response.chain.legacy = "returned"
    /\ response.code = 500 /\ response.json /\ response.error

\* C20: for every token v of symptom_vocab, normalizing its display form
\* (underscores to spaces, title-cased) gives back v; hence predict on a
\* non-empty list of display forms from get_available_symptoms() never
\* returns 'unrecognized' or 'no_symptoms' and carries predicted_disease and
\* confidence.
C20_DisplayRoundTrip ==
    (kind = "rf" /\ phase = "ready") =>
        /\ Len(RF_get_available_symptoms(rf)) = Len(rf.symptom_vocab)
        /\ \A i \in 1..Len(rf.symptom_vocab) :
             /\ RF_get_available_symptoms(rf)[i]
                    = py_title(py_replace(rf.symptom_vocab[i], "_", " "))
             /\ RF_norm(rf._normalize_cache,
                        RF_get_available_symptoms(rf)[i]).v = rf.symptom_vocab[i]
             /\ Uncached(RF_get_available_symptoms(rf)[i]) = rf.symptom_vocab[i]
        /\ (/\ call.op = "predict"
            /\ call.symptoms # <<>>
            /\ \A i \in 1..Len(call.symptoms) :
                 \E j \in 1..Len(rf.symptom_vocab) :
                    call.symptoms[i] = RF_get_available_symptoms(rf)[j])
           => /\ call.result.status \notin {"unrecognized", "no_symptoms"}
              /\ {"predicted_disease", "confidence"} \subseteq DOMAIN call.result

\* predict was called with the display forms of the two-word symptoms, and
\* answered with a disease
C20_Witness ==
    /\ RfCalled
    /\ call.symptoms = TwoWords(RF_get_available_symptoms(rf))
    /\ call.symptoms # <<>>
    /\ \E i \in 1..Len(rf.symptom_vocab) : py_in("_", rf.symptom_vocab[i])
    /\ call.result.status = "success"

\* C21: in DatasetOverlapPredictionEngine.predict, for every input and every
\* row whose score is computed, the union is not empty and the score
\* |intersection| / |union| lies in [0, 1]; the reported confidence
\* round(score * 100, 1) lies in [0, 100].
C21_ScoreBounds ==
    OvCalled =>
        /\ \A k \in 1..Len(ov._compiled_rows) :
              LET I == OvTokens(call.symptoms)
                  R == ov._compiled_rows[k].symptoms
                  score == OV_jaccard(I, R)
              IN I \cap R # {} =>
                    /\ I \cup R # {}
                    /\ score[2] > 0
                    /\ 0 <= score[1] /\ score[1] <= score[2]
        /\ "score" \in call.result.debug.keys =>
              /\ call.result.debug.score[2] > 0
              /\ 0 <= call.result.debug.score[1]
              /\ call.result.debug.score[1] <= call.result.debug.score[2]
        /\ 0 <= call.result.confidence /\ call.result.confidence <= 1000

\* a row was scored strictly between 0 and 1, and another at exactly 1
C21_Witness ==
    /\ OvCalled
    /\ call.result.status = "success"
    /\ call.result.debug.score[1] = call.result.debug.score[2]
    /\ \E k \in 1..Len(ov._compiled_rows) :
          LET s == OV_jaccard(OvTokens(call.symptoms), ov._compiled_rows[k].symptoms)
          IN 0 < s[1] /\ s[1] < s[2]

\* C27: on every 'success' result of RandomForestDatasetEngine.predict, also
\* when several classes share the maximal probability, predicted_disease is
\* candidates[0].disease and confidence is candidates[0].confidence.
C27_PrimaryIsFirstCandidate ==
    (RfCalled /\ call.result.status = "success") =>
        /\ call.result.candidates # <<>>
        /\ call.result.predicted_disease = call.result.candidates[1].disease
        /\ call.result.confidence = call.result.candidates[1].confidence

\* a thread returns from view in this step: it was inside the view and is
\* idle again, or it was idle and a guard of the view answered at once
Returns(view) ==
    \E t \in DOMAIN threads :
        \/ threads[t].view = view /\ threads'[t] = IdleView
        \/ /\ threads[t] = IdleView /\ threads' = threads
           /\ response' # response /\ response'.view = view

\* C24: a request to the patients predict_disease_api answered 200 adds
\* exactly one DiseasePrediction row, owned by the requesting user; a request
\* answered 400, 403, 405 or 500 (or redirected) leaves the rows unchanged.
C24_OneRowPer200 ==
    [][Returns("patients") =>
          IF response'.code = 200
          THEN /\ db.rows \subseteq db'.rows
               /\ Cardinality(db'.rows \ db.rows) = 1
               /\ \A row \in db'.rows \ db.rows :
                    /\ row.patient = response'.request.user
                    /\ row.id = response'.prediction_id
                    /\ \A old \in db.rows : old.id # row.id
          ELSE db' = db]_vars

\* two patients each got a 200 answer and own one row each, under the ids 1
\* and 2, and a request whose body is not JSON was then answered 400 with
\* both rows still there
C24_Witness ==
    /\ Answered("patients") /\ response.code = 400
    /\ response.request.body = "invalid_json"
    /\ db.seq = 2
    /\ \E a \in db.rows : \E b \in db.rows :
         /\ db.rows = {a, b}
         /\ a.patient = "ann" /\ b.patient = "bob"
         /\ {a.id, b.id} = {1, 2}

\* the order of the fallback chain in the response resp of the patients
\* view: the legacy engine is consulted only after the RF engine raised, and
\* 'All engines failed' (500) is returned exactly when both raised; a 200
\* answer after the RF engine raised is the legacy engine's
ChainOrder(resp) ==
    /\ resp.chain.legacy # "none" => resp.chain.rf = "raised"
    /\ resp.message = "All engines failed"
          <=> (resp.chain.rf = "raised" /\ resp.chain.legacy = "raised")
    /\ resp.message = "All engines failed" => resp.code = 500
    /\ (resp.code = 200 /\ resp.chain.rf = "raised") =>
          /\ resp.chain.legacy = "returned"
          /\ resp.result.status = "legacy_fallback"

\* the step that answers resp returns the result the RF engine returned and
\* adds one row that holds it to the rows before
RfResultKept(resp, before, after) ==
    /\ resp.code = 200
    /\ resp.result = resp.chain.rf_result
    /\ resp.result.status # "legacy_fallback"
    /\ before \subseteq after
    /\ \E row \in after \ before :
         /\ after \ before = {row}
         /\ row.id = resp.prediction_id
         /\ row.predicted_disease = resp.chain.rf_result.predicted_disease
         /\ row.confidence_score = resp.chain.rf_result.confidence
         /\ row.recommended_medicines
               = resp.chain.rf_result.medicine_recommendation
         /\ row.recommended_diet = resp.chain.rf_result.diet_recommendation

\* C26 as stated: in the patients predict_disease_api the legacy engine is
\* consulted only after the RF engine raised; 'All engines failed' (500) is
\* returned only after both raised; and whenever the RF engine returned a
\* result without raising, that result is persisted and returned.
C26_RfResultAlwaysPersisted ==
    [][Returns("patients") =>
          /\ ChainOrder(response')
          /\ response'.chain.rf = "returned" =>
                RfResultKept(response', db.rows, db'.rows)]_vars

\* C26: in the patients predict_disease_api the legacy engine is consulted
\* only after the RF engine raised; 'All engines failed' (500) is returned
\* only after both raised; and after the RF engine returned a result without
\* raising, whatever its status, the request is answered either 200, with
\* that result returned and persisted in one new row, or 500 with an 'error'
\* message other than 'All engines failed', no result and no row added.
C26_FallbackChainOrder ==
    [][Returns("patients") =>
          /\ ChainOrder(response')
          /\ response'.chain.rf = "returned" =>
                IF response'.code = 200
                THEN RfResultKept(response', db.rows, db'.rows)
                ELSE /\ response'.code = 500 /\ response'.error
                     /\ response'.message # "All engines failed"
                     /\ response'.result = NoResult
                     /\ db' = db]_vars

\* the RF engine answered 'unrecognized' without raising, and that result
\* was saved and returned
C26_Witness ==
    /\ Answered("patients") /\ response.code = 200
    /\ response.chain.rf = "returned"
    /\ response.result.status = "unrecognized"
    /\ \E row \in db.rows : /\ row.id = response.prediction_id
                             /\ row.predicted_disease = "Unknown"

\* C22: through the doctor views an appointment changes only by pending ->
\* accepted (accept_appointment), pending -> rejected with the rejection
\* reason stored (reject_appointment, POST) and accepted -> completed
\* (complete_appointment, POST), each requested by the appointment's own
\* doctor; a row in any other status is left as it was by every step, so
\* rejected and completed are terminal.
C22_AppointmentTransitions ==
    [][\A i \in DOMAIN appointments :
         LET a == appointments[i]
             b == appointments'[i]
             r == response'.request
         IN  b # a =>
               /\ r.user = a.doctor /\ r.id = i
               /\ \/ /\ response'.view = "accept_appointment"
                     /\ a.status = "pending"
                     /\ b = [a EXCEPT !.status = "accepted"]
                  \/ /\ response'.view = "reject_appointment"
                     /\ r.method = "POST" /\ a.status = "pending"
                     /\ b = [a EXCEPT !.status = "rejected",
                                      !.doctor_notes = r.rejection_reason]
                  \/ /\ response'.view = "complete_appointment"
                     /\ r.method = "POST" /\ a.status = "accepted"
                     /\ b.status = "completed"
                     /\ b.patient = a.patient /\ b.doctor = a.doctor]_vars

\* C23: send_chat_message of either side creates a Message only when an
\* accepted appointment of that patient with that doctor exists at the time
\* the call looks for it, attached to the most recently created one; a
\* well-formed request without such an appointment is answered 400 and
\* creates nothing.
C23_MessagingRequiresAccepted ==
    [][LET chat == {"patients_send_chat_message", "doctors_send_chat_message"}
           well_formed(view, r) ==
               /\ r.method = "POST" /\ r.body.kind = "object"
               /\ r.body.content \notin {<<>>, <<" ">>}
               /\ IF view = "patients_send_chat_message"
                  THEN r.user \in Patients /\ r.body.peer \in Doctors
                  ELSE r.user \in Doctors /\ r.body.peer \in Patients
           acc(r) ==
               LET patient == IF r.user \in Patients THEN r.user ELSE r.body.peer
                   doctor == IF r.user \in Patients THEN r.body.peer ELSE r.user
               IN  {i \in DOMAIN appointments :
                       /\ appointments[i].patient = patient
                       /\ appointments[i].doctor = doctor
                       /\ appointments[i].status = "accepted"}
       IN  /\ \A t \in DOMAIN requests :
                (requests[t].pc = "idle" /\ requests'[t].pc = "create") =>
                    /\ well_formed(requests'[t].view, requests'[t].req)
                    /\ requests'[t].appointment \in acc(requests'[t].req)
                    /\ \A i \in acc(requests'[t].req) :
                          i <= requests'[t].appointment
           /\ messages' # messages =>
                \E t \in DOMAIN requests :
                    /\ requests[t].pc = "create" /\ requests'[t].pc = "idle"
                    /\ messages' = Append(messages, messages'[Len(messages')])
                    /\ messages'[Len(messages')].appointment = requests[t].appointment
                    /\ messages'[Len(messages')].sender = requests[t].req.user
                    /\ messages'[Len(messages')].recipient = requests[t].req.body.peer
                    /\ response'.code = 200
           /\ (/\ response' # response /\ response'.view \in chat
               /\ requests' = requests) =>
                /\ messages' = messages
                /\ response'.code # 200
                /\ (well_formed(response'.view, response'.request)
                    /\ acc(response'.request) = {}) => response'.code = 400
                /\ well_formed(response'.view, response'.request) =>
                       acc(response'.request) = {}]_vars

\* ann has two accepted appointments with dan and her message went to the
\* second
C23_Witness ==
    /\ Len(appointments) = 2
    /\ \A i \in 1..2 : /\ appointments[i].patient = "ann"
                        /\ appointments[i].doctor = "dan"
                        /\ appointments[i].status = "accepted"
    /\ response.view = "patients_send_chat_message"
    /\ response.code = 200
    /\ messages # <<>>
    /\ messages[1].appointment = 2
    /\ messages[1].sender = "ann"

\* C25: under any sequence and interleaving of two edit_availability POSTs
\* no two DoctorAvailability rows share (doctor, weekday), and a POST that
\* completed leaves exactly the days it flagged available with both times.
C25_CompletedPostLeavesFlaggedDays ==
    /\ \A a \in availability : \A b \in availability :
          (a.doctor = b.doctor /\ a.weekday = b.weekday) => a = b
    /\ \A r \in DOMAIN requests :
          (/\ requests[r].pc = "done"
           /\ requests[r].method = "POST"
           /\ requests[r].user \in Doctors) =>
              requests[r].left =
                  {d \in Weekdays : /\ requests[r].form[d].available
                                    /\ requests[r].form[d].start_time # ""
                                    /\ requests[r].form[d].end_time # ""}

\* the part of C25 the unique constraint guarantees: one row per doctor and
\* weekday in every state
AvailabilityUnique ==
    \A a \in availability : \A b \in availability :
        (a.doctor = b.doctor /\ a.weekday = b.weekday) => a = b

\* C28: once a message is deleted for everyone it stays so in every later
\* state, under any interleaving of edit_message, delete_message and
\* clear_chat requests: is_deleted_for_everyone stays true and content stays
\* 'This message was deleted'.
C28_DeletionForEveryoneIsPermanent ==
    [][\A i \in DOMAIN messages :
          messages[i].is_deleted_for_everyone =>
              /\ messages'[i].is_deleted_for_everyone
              /\ messages'[i].content = DELETED_TEXT]_vars

\* C29: when no edit_message request is in flight, edit_count of the message
\* equals the number of its MessageEditHistory rows, is_edited is true
\* exactly when edit_count > 0, and original_content, once set, is the
\* content the message was created with.
C29_EditBookkeeping ==
    (\A r \in DOMAIN requests : requests[r].pc = "idle") =>
        \A i \in DOMAIN messages :
            /\ messages[i].edit_count =
                  Cardinality({h \in DOMAIN edit_history :
                                  edit_history[h].message = i})
            /\ messages[i].is_edited <=> messages[i].edit_count > 0
            /\ messages[i].original_content \in {<<>>, hi}

\* C30: the listing get_chat_messages reads for user U omits a message of
\* the conversation exactly when it is deleted for everyone or was deleted
\* 'for me' by U, so a message one participant deleted 'for me' is still
\* listed for the other.
C30_DeleteForMeIsPerUser ==
    [][(\E r \in DOMAIN requests :
           /\ requests[r].pc = "list" /\ requests'[r].pc = "idle"
           /\ response'.view = "get_chat_messages"
           /\ response'.code = 200) =>
          \A i \in DOMAIN messages :
              (\A k \in DOMAIN response'.messages : response'.messages[k] # i)
                <=> \/ messages[i].is_deleted_for_everyone
                    \/ <<response'.request.user, i>> \in deleted_for_me]_vars

====
